---------------------------- MODULE Spec2Model ----------------------------
(***************************************************************************)
(* Model of the symmetric envelope codec of jackal.nodejs                  *)
(* (src/unnamed/part_000: aesCrypt, convertToEncryptedFile,                *)
(* convertFromEncryptedFile).                                              *)
(*                                                                         *)
(* Buffers are sequences of bytes (0..255).  Text is ASCII, one byte per   *)
(* character.  The WebCrypto AES-GCM primitive (subtle.encrypt /           *)
(* subtle.decrypt) is a library outside the repository; it is modelled by  *)
(* SubtleEncrypt / SubtleDecrypt, which keep the structure of GCM with     *)
(* arithmetic modulo 256 in place of GF(2^128):                            *)
(*   - the ciphertext body is the plaintext combined bytewise with a       *)
(*     keystream derived from (key, iv): the length is preserved;          *)
(*   - a TagLength-byte tag follows: a keyed hash of the body, masked by   *)
(*     a pad that is a bijective function of the iv for a fixed key;       *)
(*   - decryption recomputes the tag and rejects on any mismatch, and on   *)
(*     inputs shorter than the tag.                                        *)
(***************************************************************************)
EXTENDS Integers, Sequences, FiniteSets, TLC

(***************************************************************************)
(* Bounds of the model.                                                    *)
(***************************************************************************)
\* Stand-in for chunkSize = 32 * 1024^2 (part_000 line 142), scaled down so
\* that files of one chunk, one chunk plus a byte and several chunks can be
\* enumerated.
ChunkSize == 2
\* Number of distinct AES keys.
NumKeys == 2
\* Longest buffer handed directly to aesCrypt in SpecCrypt.
MaxBufLen == 2

(***************************************************************************)
(* Program constants.                                                      *)
(***************************************************************************)
\* Width of a frame's length header: padStart(8, '0'), i + 8.
HeaderWidth == 8
\* The number the encoder adds to a length before writing it as header.
HeaderBump == 8
\* AES-GCM authentication tag, 128 bits by default (algo has no tagLength).
TagLength == 16
\* genIv(): randomBytes(16).
IvLength == 16

Byte == 0..255

\* ASCII codes used by the model.
Ch == [zero |-> 48, minus |-> 45, plus |-> 43, space |-> 32, z |-> 122]
Digits == 48..57
Whitespace == {9, 10, 11, 12, 13, 32}

Min(a, b) == IF a < b THEN a ELSE b
Max(a, b) == IF a > b THEN a ELSE b

\* Concatenation of a sequence of buffers (what the File constructor does
\* with its array of parts).
RECURSIVE Concat(_)
Concat(parts) ==
  IF parts = << >> THEN << >> ELSE Head(parts) \o Concat(Tail(parts))

(***************************************************************************)
(* Buffer.prototype.slice(start, end) of Node: offsets are clamped to the  *)
(* buffer, negative offsets count from the end, NaN counts as 0, and an    *)
(* end before the start gives the empty buffer.  A NaN offset is passed    *)
(* as the record Nan; numbers are passed as Num(n).                        *)
(***************************************************************************)
Nan == [nan |-> TRUE, val |-> 0]
Num(n) == [nan |-> FALSE, val |-> n]

adjustOffset(offset, length) ==
  IF offset.nan \/ offset.val = 0 THEN 0
  ELSE IF offset.val < 0 THEN Max(offset.val + length, 0)
  ELSE Min(offset.val, length)

slice(buf, start, end) ==
  LET s == adjustOffset(start, Len(buf))
      e == adjustOffset(end, Len(buf))
  IN  IF e > s THEN SubSeq(buf, s + 1, e) ELSE << >>

(***************************************************************************)
(* Number.prototype.toString() of a non-negative integer, as ASCII.        *)
(***************************************************************************)
RECURSIVE toString(_)
toString(n) ==
  IF n < 10 THEN << Ch.zero + n >>
  ELSE toString(n \div 10) \o << Ch.zero + (n % 10) >>

\* String.prototype.padStart(width, ch): pads on the left, never truncates.
RECURSIVE padStart(_, _, _)
padStart(s, width, ch) ==
  IF Len(s) >= width THEN s ELSE padStart(<< ch >> \o s, width, ch)

(***************************************************************************)
(* Number(text) of JavaScript for the texts the model feeds it: bytes      *)
(* among the decimal digits, '+', '-', white space and other characters    *)
(* that occur in no numeric literal.  White space is trimmed at both       *)
(* ends; the empty text is 0; an optional sign followed by one or more     *)
(* decimal digits is that integer; anything else is NaN.  (Literals with   *)
(* '.', an exponent, a 0x/0o/0b prefix or Infinity are not among the       *)
(* model's inputs.)                                                        *)
(***************************************************************************)
RECURSIVE TrimLeft(_)
TrimLeft(s) ==
  IF s # << >> /\ Head(s) \in Whitespace THEN TrimLeft(Tail(s)) ELSE s

RECURSIVE TrimRight(_)
TrimRight(s) ==
  IF s # << >> /\ s[Len(s)] \in Whitespace
  THEN TrimRight(SubSeq(s, 1, Len(s) - 1))
  ELSE s

RECURSIVE DigitsValue(_)
DigitsValue(s) ==
  IF s = << >> THEN 0
  ELSE 10 * DigitsValue(SubSeq(s, 1, Len(s) - 1)) + (s[Len(s)] - Ch.zero)

AllDigits(s) == s # << >> /\ \A k \in 1..Len(s) : s[k] \in Digits

Number(text) ==
  LET t == TrimRight(TrimLeft(text))
  IN  IF t = << >> THEN Num(0)
      ELSE IF Head(t) = Ch.minus /\ AllDigits(Tail(t))
           THEN Num(0 - DigitsValue(Tail(t)))
      ELSE IF Head(t) = Ch.plus /\ AllDigits(Tail(t))
           THEN Num(DigitsValue(Tail(t)))
      ELSE IF AllDigits(t) THEN Num(DigitsValue(t))
      ELSE Nan

\* a + b where either may be NaN.
NumAdd(a, b) == IF a.nan \/ b.nan THEN Nan ELSE Num(a.val + b.val)


(***************************************************************************)
(* Key material.  A key is an AES-256 CryptoKey as genKey() and            *)
(* importJackalKey() make it (usable for encrypt and decrypt), named by a  *)
(* number; an iv is IvLength bytes as genIv() makes it.                    *)
(***************************************************************************)
Keys == 1..NumKeys
IvA == [j \in 1..IvLength |-> j]
IvB == [j \in 1..IvLength |-> 255 - 3 * j]
Ivs == {IvA, IvB}

(***************************************************************************)
(* The AES-GCM primitive (WebCrypto), in the structure described at the    *)
(* top of the module.                                                      *)
(***************************************************************************)
KeyStream(key, iv, i) == (31 * key + iv[((i - 1) % IvLength) + 1] + i) % 256

RECURSIVE WeightedSum(_, _)
WeightedSum(body, n) ==
  IF n = 0 THEN 0 ELSE WeightedSum(body, n - 1) + (2 * n + 1) * body[n]

\* The keyed hash of a ciphertext body.  The position weights and the key
\* factor are odd, so changing one byte always changes the hash.
GHash(key, body) ==
  ((2 * key + 1) * (WeightedSum(body, Len(body)) + Len(body))) % 256

\* The mask of the tag: for a fixed key, a bijection from ivs to masks.
TagMask(key, iv) == [j \in 1..TagLength |-> (iv[j] + key * j) % 256]

TagOf(key, iv, body) ==
  [j \in 1..TagLength |->
     ((2 * j + 1) * GHash(key, body) + TagMask(key, iv)[j]) % 256]

\* subtle.encrypt({name: 'AES-GCM', iv}, key, data): never rejects for the
\* keys and ivs of the model.
SubtleEncrypt(key, iv, data) ==
  LET body == [i \in 1..Len(data) |-> (data[i] + KeyStream(key, iv, i)) % 256]
  IN  body \o TagOf(key, iv, body)

\* The error WebCrypto rejects a failed decryption with.  Its message says
\* nothing about the operation attempted.
OperationError ==
  [name |-> "OperationError",
   message |-> "The operation failed for an operation-specific reason"]

\* subtle.decrypt({name: 'AES-GCM', iv}, key, data).
SubtleDecrypt(key, iv, data) ==
  LET n == Len(data) - TagLength
      body == SubSeq(data, 1, n)
      tag == SubSeq(data, n + 1, Len(data))
  IN  IF n < 0 \/ tag # TagOf(key, iv, body)
      THEN [ok |-> FALSE, value |-> << >>, err |-> OperationError]
      ELSE [ok |-> TRUE,
            value |-> [i \in 1..n |->
                         (body[i] + 256 - KeyStream(key, iv, i)) % 256],
            err |-> OperationError]

(***************************************************************************)
(* aesCrypt (part_000 lines 56-89).  The result records whether the        *)
(* promise rejected (threw) and with what (err), the buffer it resolved    *)
(* to (value), the lines written to console.error (console) and the        *)
(* cipher operations invoked (cipher).                                     *)
(***************************************************************************)
NoError == [name |-> "", message |-> ""]

\* String.prototype.toLowerCase() on the mode texts of the model.
toLowerCase(mode) == IF mode = "ENCRYPT" THEN "encrypt" ELSE mode

\* Variant: the short-circuit for empty input is missing.
isEmptyDataNever(data) == Len(data) < 0

\* data.byteLength < 1
isEmptyData(data) == Len(data) < 1

\* Variant: the decrypt branch is never taken.
isEncryptModeAlways(mode) == TRUE

\* mode?.toLowerCase() === 'encrypt'
isEncryptMode(mode) == toLowerCase(mode) = "encrypt"

\* Variant: the decrypt branch logs with the text of the encrypt branch.
decryptLogLineCopied(err) == [text |-> "aesCrypt(encrypt) - ", err |-> err]

\* The template literals `aesCrypt(encrypt) - ${err}` and
\* `aesCrypt(decrypt) - ${err}`: the fixed text and the error appended.
encryptLogLine(err) == [text |-> "aesCrypt(encrypt) - ", err |-> err]
decryptLogLine(err) == [text |-> "aesCrypt(decrypt) - ", err |-> err]

\* .catch((err) => { console.error(...); throw err }) of the encrypt branch.
onEncryptRejected(err) ==
  [threw |-> TRUE, value |-> << >>, err |-> err,
   console |-> << encryptLogLine(err) >>, cipher |-> << "encrypt" >>]

\* Variant: the catch handler logs and does not rethrow.
onDecryptRejectedSwallowed(err) ==
  [threw |-> FALSE, value |-> << >>, err |-> NoError,
   console |-> << [text |-> "aesCrypt(decrypt) - ", err |-> err] >>,
   cipher |-> << "decrypt" >>]

\* .catch((err) => { console.error(...); throw err }) of the decrypt branch.
onDecryptRejected(err) ==
  [threw |-> TRUE, value |-> << >>, err |-> err,
   console |-> << decryptLogLine(err) >>, cipher |-> << "decrypt" >>]

aesCrypt(data, key, iv, mode) ==
  IF isEmptyData(data)
  THEN [threw |-> FALSE, value |-> << >>, err |-> NoError,
        console |-> << >>, cipher |-> << >>]
  ELSE IF isEncryptMode(mode)
  THEN [threw |-> FALSE, value |-> SubtleEncrypt(key, iv, data),
        err |-> NoError, console |-> << >>, cipher |-> << "encrypt" >>]
  ELSE LET r == SubtleDecrypt(key, iv, data)
       IN  IF r.ok
           THEN [threw |-> FALSE, value |-> r.value, err |-> NoError,
                 console |-> << >>, cipher |-> << "decrypt" >>]
           ELSE onDecryptRejected(r.err)

(***************************************************************************)
(* State.                                                                  *)
(*   aesCrypt called directly: cPc, callArgs, callResult, prevArgs,        *)
(*     prevResult, feed.                                                   *)
(*   convertToEncryptedFile: ePc, workingFile, encKey, encIv, encNow,      *)
(*     encryptedArray, encI, encOut.                                       *)
(*   convertFromEncryptedFile: dPc, source, decKey, decIv, decI,           *)
(*     detailsBuf, bufParts, decOut, decErr; frames and origin are         *)
(*     history variables.                                                  *)
(*   aesToString / stringToAes: wPc, wrapArgs, wrapped, unwrapArgs,        *)
(*     unwrapResult.                                                       *)
(*   FolderHandler: fPc, folderDetails; prevDetails and lastOp are history *)
(*     variables (the details before the last call, and the call with      *)
(*     what it returned).                                                  *)
(*   WalletHandler: wlPc, wProps (properties), wTraits (traits), wPending  *)
(*     (the convertToFullWallet calls waiting for processWallet);          *)
(*     wSinceVoid and wLast are history variables (whether                 *)
(*     voidFullWallet returned and no convertToFullWallet call was made    *)
(*     since, and the last call that ended with what it gave).             *)
(*   addChildDirs calls that overlap on one node: race.                    *)
(***************************************************************************)
VARIABLES cPc, callArgs, callResult, prevArgs, prevResult, feed,
          ePc, workingFile, encKey, encIv, encNow, encryptedArray, encI,
          encOut,
          dPc, source, decKey, decIv, decI, detailsBuf, bufParts, decOut,
          decErr, frames, origin,
          wPc, wrapArgs, wrapped, unwrapArgs, unwrapResult,
          fPc, folderDetails, prevDetails, lastOp,
          wlPc, wProps, wTraits, wPending, wSinceVoid, wLast,
          race

cryptVars == << cPc, callArgs, callResult, prevArgs, prevResult, feed >>
encVars == << ePc, workingFile, encKey, encIv, encNow, encryptedArray, encI,
              encOut >>
decVars == << dPc, source, decKey, decIv, decI, detailsBuf, bufParts, decOut,
              decErr, frames, origin >>
wrapVars == << wPc, wrapArgs, wrapped, unwrapArgs, unwrapResult >>
folderVars == << fPc, folderDetails, prevDetails, lastOp >>
walletVars == << wlPc, wProps, wTraits, wPending, wSinceVoid, wLast >>
raceVars == << race >>
vars == << cryptVars, encVars, decVars, wrapVars, folderVars, walletVars,
          raceVars >>

(***************************************************************************)
(* aesCrypt as a function of its arguments: Init draws the arguments of a  *)
(* first call; CryptCall applies aesCrypt; CryptFeedBack hands the result  *)
(* of the first call to a second call under any key, iv and mode;          *)
(* CryptTamper hands a ciphertext with one bit flipped to a decrypting     *)
(* second call under the same key and iv.                                  *)
(***************************************************************************)
BufBytes == {1, 254}
Modes == {"encrypt", "decrypt", "ENCRYPT"}

RECURSIVE SeqsUpTo(_, _)
SeqsUpTo(S, n) ==
  IF n = 0 THEN { << >> }
  ELSE LET shorter == SeqsUpTo(S, n - 1)
       IN  shorter \cup { Append(q, x) : q \in shorter, x \in S }

Buffers == SeqsUpTo(BufBytes, MaxBufLen)

PowerOfTwo(k) == CASE k = 0 -> 1 [] k = 1 -> 2 [] k = 2 -> 4 [] k = 3 -> 8
                   [] k = 4 -> 16 [] k = 5 -> 32 [] k = 6 -> 64 [] k = 7 -> 128

\* The byte b with bit k inverted.
FlipBit(b, k) ==
  IF (b \div PowerOfTwo(k)) % 2 = 1 THEN b - PowerOfTwo(k)
  ELSE b + PowerOfTwo(k)

\* The buffer buf with bit k of byte i inverted.
FlipBufferBit(buf, i, k) == [buf EXCEPT ![i] = FlipBit(buf[i], k)]

NoArgs == [data |-> << >>, key |-> 0, iv |-> << >>, mode |-> "none"]
NoResult == [threw |-> FALSE, value |-> << >>, err |-> NoError,
             console |-> << >>, cipher |-> << >>]

CryptIdle ==
  /\ cPc = "idle"
  /\ callArgs = NoArgs
  /\ callResult = NoResult
  /\ prevArgs = NoArgs
  /\ prevResult = NoResult
  /\ feed = "none"

EncIdle ==
  /\ ePc = "idle"
  /\ workingFile = [name |-> << >>, lastModified |-> 0, type |-> << >>,
                    content |-> << >>]
  /\ encKey = 0
  /\ encIv = << >>
  /\ encNow = 0
  /\ encryptedArray = << >>
  /\ encI = 0
  /\ encOut = [name |-> [hashAndHex |-> << >>, extension |-> ""],
               type |-> "", content |-> << >>]

DecIdle ==
  /\ dPc = "idle"
  /\ source = << >>
  /\ decKey = 0
  /\ decIv = << >>
  /\ decI = Num(0)
  /\ detailsBuf = << >>
  /\ bufParts = << >>
  /\ decOut = [name |-> << >>, lastModified |-> 0, type |-> << >>,
               content |-> << >>]
  /\ decErr = NoError
  /\ frames = << >>
  /\ origin = [kind |-> "none", how |-> "none"]

NoWrapArgs == [key |-> 0, iv |-> << >>, pubKey |-> 0, ephIv |-> 0, ephKey |-> 0]
NoCryptoKey == [raw |-> << >>]
NoUnwrapArgs == [signer |-> 0, source |-> << >>, how |-> "none"]
NoUnwrapResult == [threw |-> FALSE, err |-> NoError, iv |-> << >>,
                   key |-> NoCryptoKey, asymCalls |-> << >>]

WrapIdle ==
  /\ wPc = "idle"
  /\ wrapArgs = NoWrapArgs
  /\ wrapped = << >>
  /\ unwrapArgs = NoUnwrapArgs
  /\ unwrapResult = NoUnwrapResult

EmptyFiles == [name \in {} |-> ""]
NoFolder == [whoAmI |-> "", whereAmI |-> "", whoOwnsMe |-> "",
             dirChildren |-> << >>, fileChildren |-> EmptyFiles]
NoOp == [op |-> "none", names |-> << >>, files |-> EmptyFiles,
         fileNames |-> << >>,
         signing |-> FALSE, threw |-> FALSE, err |-> NoError,
         encoded |-> << >>, existing |-> << >>, children |-> << >>]

FolderIdle ==
  /\ fPc = "idle"
  /\ folderDetails = NoFolder
  /\ prevDetails = NoFolder
  /\ lastOp = NoOp

NullProperties == [isNull |-> TRUE, keyPair |-> 0, rnsInitComplete |-> FALSE,
                   fileTreeInitComplete |-> FALSE, address |-> ""]
NullTraits == [isNull |-> TRUE, chainId |-> "", isDirect |-> FALSE]
NoValue == [tag |-> "undefined", flag |-> FALSE, text |-> "", bytes |-> << >>]
NoWalletCall == [op |-> "none", arg |-> NoValue, threw |-> FALSE,
                 err |-> NoError, value |-> NoValue,
                 beforeProps |-> NullProperties, beforeTraits |-> NullTraits]

WalletIdle ==
  /\ wlPc = "none"
  /\ wProps = NullProperties
  /\ wTraits = NullTraits
  /\ wPending = << >>
  /\ wSinceVoid = FALSE
  /\ wLast = NoWalletCall

RaceCalls == {1, 2}
NoRaceCall == [pc |-> "idle", childNames |-> << >>, existing |-> << >>,
               more |-> << >>, handlers |-> << >>, encoded |-> << >>,
               threw |-> FALSE, seen |-> << >>]

RaceIdle == race = [c \in RaceCalls |-> NoRaceCall]

InitCrypt ==
  /\ cPc = "ready"
  /\ callArgs \in [data : Buffers, key : Keys, iv : Ivs, mode : Modes]
  /\ callResult = NoResult
  /\ prevArgs = NoArgs
  /\ prevResult = NoResult
  /\ feed = "none"
  /\ EncIdle
  /\ DecIdle
  /\ WrapIdle
  /\ FolderIdle
  /\ WalletIdle
  /\ RaceIdle

CryptCall ==
  /\ cPc = "ready"
  /\ callResult' = aesCrypt(callArgs.data, callArgs.key, callArgs.iv,
                            callArgs.mode)
  /\ cPc' = "returned"
  /\ UNCHANGED << callArgs, prevArgs, prevResult, feed, encVars, decVars,
                  wrapVars, folderVars,
                  walletVars, raceVars >>

CryptFeedBack ==
  /\ cPc = "returned"
  /\ feed = "none"
  /\ ~callResult.threw
  /\ \E key \in Keys, iv \in Ivs, mode \in Modes :
       callArgs' = [data |-> callResult.value, key |-> key, iv |-> iv,
                    mode |-> mode]
  /\ prevArgs' = callArgs
  /\ prevResult' = callResult
  /\ callResult' = NoResult
  /\ feed' = "same"
  /\ cPc' = "ready"
  /\ UNCHANGED << encVars, decVars,
                  wrapVars, folderVars,
                  walletVars, raceVars >>

CryptTamper ==
  /\ cPc = "returned"
  /\ feed = "none"
  /\ ~callResult.threw
  /\ isEncryptMode(callArgs.mode)
  /\ callArgs.data # << >>
  /\ \E i \in 1..Len(callResult.value), k \in 0..7 :
       callArgs' = [data |-> FlipBufferBit(callResult.value, i, k),
                    key |-> callArgs.key, iv |-> callArgs.iv,
                    mode |-> "decrypt"]
  /\ prevArgs' = callArgs
  /\ prevResult' = callResult
  /\ callResult' = NoResult
  /\ feed' = "flipped"
  /\ cPc' = "ready"
  /\ UNCHANGED << encVars, decVars,
                  wrapVars, folderVars,
                  walletVars, raceVars >>

NextCrypt == CryptCall \/ CryptFeedBack \/ CryptTamper

SpecCrypt == InitCrypt /\ [][NextCrypt]_vars

(***************************************************************************)
(* Files.  A File is its name, lastModified, type and content; its size    *)
(* is the length of the content.  Names and types are ASCII texts without  *)
(* characters that JSON.stringify escapes.                                 *)
(***************************************************************************)
MaxFileSize == 2 * ChunkSize + 1
ContentBytes == {7, 200}
Names == { << 97 >> }
Types == { << >>, << 116, 47, 112 >> }
LastModifieds == {7}
Times == {1000}

Files == [name : Names, lastModified : LastModifieds, type : Types,
          content : SeqsUpTo(ContentBytes, MaxFileSize)]

\* Blob.prototype.slice(start, end) for 0 <= start <= end: clamped to the
\* content.
blobSlice(content, start, end) ==
  SubSeq(content, Min(start, Len(content)) + 1, Min(end, Len(content)))

(***************************************************************************)
(* JSON.stringify of the details object { name, lastModified, type, size } *)
(* (keys in insertion order, no white space), as ASCII.                    *)
(***************************************************************************)
JsonStringify(details) ==
  << 123, 34, 110, 97, 109, 101, 34, 58, 34 >>                \* {"name":"
    \o details.name
    \o << 34, 44, 34, 108, 97, 115, 116, 77, 111, 100, 105, 102, 105, 101,
          100, 34, 58 >>                                      \* ","lastModified":
    \o toString(details.lastModified)
    \o << 44, 34, 116, 121, 112, 101, 34, 58, 34 >>           \* ,"type":"
    \o details.type
    \o << 34, 44, 34, 115, 105, 122, 101, 34, 58 >>           \* ","size":
    \o toString(details.size)
    \o << 125 >>                                              \* }

(***************************************************************************)
(* JSON.parse followed by the use the decoder makes of the result          *)
(* (details.name, and details as the options of new File).  The texts      *)
(* that parse are those JsonStringify produces from a details object of    *)
(* the model; every other text of the model's runs (the empty text, raw    *)
(* ciphertext that is no such text) makes JSON.parse throw a SyntaxError.  *)
(***************************************************************************)
DetailsUniverse == [name : Names, lastModified : LastModifieds, type : Types,
                    size : 0..MaxFileSize]

JsonParses(text) == \E d \in DetailsUniverse : JsonStringify(d) = text

JsonParse(text) == CHOOSE d \in DetailsUniverse : JsonStringify(d) = text

SyntaxError == [name |-> "SyntaxError", message |-> "Unexpected token"]

(***************************************************************************)
(* convertToEncryptedFile (part_000 lines 136-168), one action per await   *)
(* of the frame loop.                                                      *)
(***************************************************************************)
\* Buffer.from((length + 8).toString().padStart(8, '0')), where length is
\* detailsBuf.length or bufChunk.length.
lengthHeader(length) ==
  padStart(toString(length + HeaderBump), HeaderWidth, Ch.zero)

\* Variant: the loop also runs when i has reached the size.
encodeLoopRunsInclusive(i, size) == i <= size

\* i < workingFile.size
encodeLoopRuns(i, size) == i < size

\* The name of the output file: the hash of the original name followed by
\* the time of the call, with the extension .jkl.  The hash is kept as its
\* argument.
finalName(name, time) == [hashAndHex |-> name \o toString(time),
                          extension |-> ".jkl"]

\* Lines 142-153: the details record and the metadata frame.
EncodeBegin ==
  /\ ePc = "idle"
  /\ dPc = "idle"
  /\ \E file \in Files, key \in Keys, iv \in Ivs, time \in Times :
       LET details == [name |-> file.name,
                       lastModified |-> file.lastModified,
                       type |-> file.type,
                       size |-> Len(file.content)]
           buf == JsonStringify(details)
           r == aesCrypt(buf, key, iv, "encrypt")
       IN  /\ workingFile' = file
           /\ encKey' = key
           /\ encIv' = iv
           /\ encNow' = time
           /\ encI' = 0
           /\ IF r.threw
              THEN /\ ePc' = "failed"
                   /\ encryptedArray' = << >>
              ELSE /\ ePc' = "loop"
                   /\ encryptedArray' = << lengthHeader(Len(buf)), r.value >>
  /\ UNCHANGED << encOut, cryptVars, decVars,
                  wrapVars, folderVars,
                  walletVars, raceVars >>

\* Lines 154-160: one iteration of the chunk loop.
EncodeChunk ==
  /\ ePc = "loop"
  /\ encodeLoopRuns(encI, Len(workingFile.content))
  /\ LET bufChunk == blobSlice(workingFile.content, encI, encI + ChunkSize)
         r == aesCrypt(bufChunk, encKey, encIv, "encrypt")
     IN  IF r.threw
         THEN /\ ePc' = "failed"
              /\ UNCHANGED << encryptedArray, encI >>
         ELSE /\ encryptedArray' =
                   encryptedArray \o << lengthHeader(Len(bufChunk)), r.value >>
              /\ encI' = encI + ChunkSize
              /\ ePc' = "loop"
  /\ UNCHANGED << workingFile, encKey, encIv, encNow, encOut, cryptVars,
                  decVars,
                  wrapVars, folderVars,
                  walletVars, raceVars >>

\* Lines 161-167: the output file.
EncodeFinish ==
  /\ ePc = "loop"
  /\ ~encodeLoopRuns(encI, Len(workingFile.content))
  /\ encOut' = [name |-> finalName(workingFile.name, encNow),
                type |-> "text/plain",
                content |-> Concat(encryptedArray)]
  /\ ePc' = "done"
  /\ UNCHANGED << workingFile, encKey, encIv, encNow, encryptedArray, encI,
                  cryptVars, decVars,
                  wrapVars, folderVars,
                  walletVars, raceVars >>

(***************************************************************************)
(* convertFromEncryptedFile (part_000 lines 177-204), one action per       *)
(* iteration of the frame loop.  decI is the loop variable i, a number or  *)
(* NaN.  frames is a history variable: for every iteration, the header     *)
(* read, the number made of it, whether the declared span ends past the    *)
(* buffer, the segment sliced and the buffer aesCrypt resolved to.         *)
(***************************************************************************)
\* Variant: the decrypted buffer is what gets stored.
storedPartDecrypted(segment, decrypted) == decrypted

\* Lines 191-196: the result of `await aesCrypt(segment, ...)` is dropped;
\* detailsBuf is assigned, and bufParts is pushed, the segment.
storedPart(segment, decrypted) == segment

\* i < source.length, false when i is NaN.
decodeLoopRuns(i, length) == ~i.nan /\ i.val < length

\* The iterations of the frame loop that are followed: a loop that never
\* ends is followed for MaxFrames iterations.
MaxFrames == 6

\* Lines 186-197.
DecodeFrame ==
  /\ dPc = "loop"
  /\ decodeLoopRuns(decI, Len(source))
  /\ Len(frames) < MaxFrames
  /\ LET offset == decI.val + HeaderWidth
         header == slice(source, decI, Num(offset))
         segSize == Number(header)
         last == NumAdd(Num(offset), segSize)
         segment == slice(source, Num(offset), last)
         r == aesCrypt(segment, decKey, decIv, "decrypt")
         part == storedPart(segment, r.value)
     IN  /\ frames' = Append(frames,
                        [header |-> header, segSize |-> segSize,
                         overran |-> ~last.nan /\ last.val > Len(source),
                         segment |-> segment, threw |-> r.threw,
                         decrypted |-> r.value])
         /\ IF r.threw
            THEN /\ dPc' = "failed"
                 /\ decErr' = r.err
                 /\ UNCHANGED << detailsBuf, bufParts, decI >>
            ELSE /\ dPc' = "loop"
                 /\ decErr' = decErr
                 /\ detailsBuf' = IF decI.val = 0 THEN part ELSE detailsBuf
                 /\ bufParts' = IF decI.val = 0 THEN bufParts
                                ELSE Append(bufParts, part)
                 /\ decI' = last
  /\ UNCHANGED << source, decKey, decIv, decOut, origin, cryptVars, encVars,
                  wrapVars, folderVars,
                  walletVars, raceVars >>

\* Lines 199-203.
DecodeFinish ==
  /\ dPc = "loop"
  /\ ~decodeLoopRuns(decI, Len(source))
  /\ IF JsonParses(detailsBuf)
     THEN LET details == JsonParse(detailsBuf)
          IN  /\ decOut' = [name |-> details.name,
                            lastModified |-> details.lastModified,
                            type |-> details.type,
                            content |-> Concat(bufParts)]
              /\ dPc' = "done"
              /\ decErr' = decErr
     ELSE /\ dPc' = "failed"
          /\ decErr' = SyntaxError
          /\ decOut' = decOut
  /\ UNCHANGED << source, decKey, decIv, decI, detailsBuf, bufParts, frames,
                  origin, cryptVars, encVars,
                  wrapVars, folderVars,
                  walletVars, raceVars >>

(***************************************************************************)
(* Envelopes handed to the decoder that the encoder did not write.         *)
(*                                                                         *)
(* FramedAs(segments) frames every segment the way the decoder reads a     *)
(* frame: a header holding the length of the segment, then the segment.    *)
(*                                                                         *)
(* IvAuthenticating(key, segment) is the iv under which the segment is an  *)
(* authentic ciphertext of the key.  It exists for every key and every     *)
(* segment of TagLength bytes or more, because the mask of the tag is a    *)
(* bijection of the iv (in AES-GCM with a 16-byte iv: J0 = GHASH_H(iv),    *)
(* and the mask is E_K(J0)).                                               *)
(***************************************************************************)
segmentHeader(length) == padStart(toString(length), HeaderWidth, Ch.zero)

RECURSIVE FramedAs(_)
FramedAs(segments) ==
  IF segments = << >> THEN << >>
  ELSE << segmentHeader(Len(Head(segments))) \o Head(segments) >>
         \o FramedAs(Tail(segments))

IvAuthenticating(key, segment) ==
  LET n == Len(segment) - TagLength
      body == SubSeq(segment, 1, n)
  IN  [j \in 1..TagLength |->
         (segment[n + j] + 256 * 64
            - (2 * j + 1) * GHash(key, body) - key * j) % 256]

RECURSIVE ChunksOf(_)
ChunksOf(content) ==
  IF content = << >> THEN << >>
  ELSE << blobSlice(content, 0, ChunkSize) >>
         \o ChunksOf(blobSlice(content, ChunkSize, Len(content)))

DetailsOf(file) == [name |-> file.name, lastModified |-> file.lastModified,
                    type |-> file.type, size |-> Len(file.content)]

EncryptedChunks(file, key, iv) ==
  LET chunks == ChunksOf(file.content)
  IN  [c \in 1..Len(chunks) |-> SubtleEncrypt(key, iv, chunks[c])]

\* The files the hand-made envelopes carry: empty, and one chunk plus a byte.
CraftFiles ==
  { f \in Files :
      \/ f.content = << >>
      \/ f.content = [i \in 1..(ChunkSize + 1) |->
                        IF i % 2 = 1 THEN 7 ELSE 200] }

NotANumber == << 122, 122, 122, 122, 122, 122, 122, 122 >>     \* zzzzzzzz
Slack == << 49, 50, 51 >>                                      \* 123
NegativeHeader ==                                              \* -0000008
  << Ch.minus >> \o padStart(toString(HeaderBump), HeaderWidth - 1, Ch.zero)

\* The frames of an envelope, changed in one of the ways an envelope can be
\* malformed.
Malformed(fr, how) ==
  CASE how = "intact" -> fr
    [] how = "firstHeaderNotANumber" ->
         [fr EXCEPT ![1] = NotANumber \o SubSeq(@, HeaderWidth + 1, Len(@))]
    [] how = "laterHeaderNotANumber" ->
         [fr EXCEPT ![2] = NotANumber \o SubSeq(@, HeaderWidth + 1, Len(@))]
    [] how = "endsAfterHeader" ->
         [fr EXCEPT ![Len(fr)] = SubSeq(@, 1, HeaderWidth)]
    [] how = "lastByteMissing" ->
         [fr EXCEPT ![Len(fr)] = SubSeq(@, 1, Len(@) - 1)]
    [] how = "slack" -> Append(fr, Slack)
    [] how = "zeroHeaderAtEnd" -> Append(fr, segmentHeader(0))
    [] how = "negativeHeaderAtEnd" -> Append(fr, NegativeHeader)
    [] how = "negativeHeaderOnly" -> << NegativeHeader >>

Hows(fr) ==
  {"intact", "firstHeaderNotANumber", "lastByteMissing", "slack",
   "zeroHeaderAtEnd", "negativeHeaderAtEnd", "negativeHeaderOnly"}
    \cup (IF Len(fr) >= 2 THEN {"laterHeaderNotANumber", "endsAfterHeader"}
          ELSE {})

\* Envelopes whose frames are framed as the decoder reads them and encrypted
\* under (key, iv): the metadata frame is the encrypted details record.
FramedSources ==
  UNION { LET fr == FramedAs(<< SubtleEncrypt(key, iv,
                                    JsonStringify(DetailsOf(file))) >>
                               \o EncryptedChunks(file, key, iv))
          IN  { [bytes |-> Concat(Malformed(fr, how)), key |-> key,
                 iv |-> iv, kind |-> "framed", how |-> how] :
                how \in Hows(fr) }
          : file \in CraftFiles, key \in Keys, iv \in Ivs }

\* Envelopes whose first segment reads as the JSON text of a details record
\* and is authentic under (key, iv): the iv is the one that authenticates
\* it.  The body frames are encrypted under the same key and iv.
JsonFirstSources ==
  UNION { LET text == JsonStringify(DetailsOf(file))
              iv == IvAuthenticating(key, text)
              fr == FramedAs(<< text >> \o EncryptedChunks(file, key, iv))
          IN  { [bytes |-> Concat(Malformed(fr, how)), key |-> key,
                 iv |-> iv, kind |-> "jsonFirst", how |-> how] :
                how \in Hows(fr) }
          : file \in CraftFiles, key \in Keys }

CraftedSources == FramedSources \cup JsonFirstSources

\* Lines 183-185, decoding what convertToEncryptedFile returned, with the
\* key and iv it was given.
DecodeBeginOwn ==
  /\ dPc = "idle"
  /\ ePc = "done"
  /\ source' = encOut.content
  /\ decKey' = encKey
  /\ decIv' = encIv
  /\ origin' = [kind |-> "own", how |-> "intact"]
  /\ decI' = Num(0)
  /\ detailsBuf' = << >>
  /\ bufParts' = << >>
  /\ dPc' = "loop"
  /\ UNCHANGED << decOut, decErr, frames, cryptVars, encVars,
                  wrapVars, folderVars,
                  walletVars, raceVars >>

\* Lines 183-185, decoding a hand-made envelope.
DecodeBeginCrafted ==
  /\ dPc = "idle"
  /\ ePc = "idle"
  /\ \E c \in CraftedSources :
       /\ source' = c.bytes
       /\ decKey' = c.key
       /\ decIv' = c.iv
       /\ origin' = [kind |-> c.kind, how |-> c.how]
  /\ decI' = Num(0)
  /\ detailsBuf' = << >>
  /\ bufParts' = << >>
  /\ dPc' = "loop"
  /\ UNCHANGED << decOut, decErr, frames, cryptVars, encVars,
                  wrapVars, folderVars,
                  walletVars, raceVars >>

InitCodec ==
  CryptIdle /\ EncIdle /\ DecIdle /\ WrapIdle /\ FolderIdle /\ WalletIdle
    /\ RaceIdle

NextCodec ==
  \/ EncodeBegin
  \/ EncodeChunk
  \/ EncodeFinish
  \/ DecodeBeginOwn
  \/ DecodeBeginCrafted
  \/ DecodeFrame
  \/ DecodeFinish

SpecCodec == InitCodec /\ [][NextCodec]_vars

(***************************************************************************)
(* Strings.  A string is the sequence of its character codes; Undefined is *)
(* what indexing an array past its end gives.                              *)
(***************************************************************************)
HexCh == [pipe |-> 124, nine |-> 57, a |-> 97, f |-> 102, A |-> 65, F |-> 70]
Undefined == << -1 >>

\* String.prototype.indexOf for a one-character needle: the 0-based index
\* of its first occurrence, or -1.
indexOf(s, c) ==
  IF \E k \in 1..Len(s) : s[k] = c
  THEN (CHOOSE k \in 1..Len(s) :
          s[k] = c /\ \A j \in 1..(k - 1) : s[j] # c) - 1
  ELSE -1

\* String.prototype.split for a one-character separator: the pieces between
\* all of its occurrences.
RECURSIVE split(_, _)
split(s, c) ==
  LET i == indexOf(s, c)
  IN  IF i < 0 THEN << s >>
      ELSE << SubSeq(s, 1, i) >> \o split(SubSeq(s, i + 2, Len(s)), c)

\* parts[n] of JavaScript, n counted from 0.
partAt(parts, n) == IF n + 1 <= Len(parts) THEN parts[n + 1] ELSE Undefined

(***************************************************************************)
(* Hex.  buf.toString('hex') writes two lower-case digits per byte.        *)
(* Buffer.from(text, 'hex') reads two digits per byte, in either case, and *)
(* stops in front of the first pair that is not two hex digits (an odd     *)
(* last character is dropped); it throws a TypeError when text is not a    *)
(* string.                                                                 *)
(***************************************************************************)
hexDigit(n) == IF n < 10 THEN Ch.zero + n ELSE HexCh.a + (n - 10)

toHex(buf) ==
  [k \in 1..(2 * Len(buf)) |->
     IF k % 2 = 1 THEN hexDigit(buf[(k + 1) \div 2] \div 16)
     ELSE hexDigit(buf[k \div 2] % 16)]

isHexDigit(c) ==
  \/ c \in Ch.zero..HexCh.nine
  \/ c \in HexCh.a..HexCh.f
  \/ c \in HexCh.A..HexCh.F

hexValue(c) ==
  IF c \in Ch.zero..HexCh.nine THEN c - Ch.zero
  ELSE IF c \in HexCh.a..HexCh.f THEN c - HexCh.a + 10
  ELSE c - HexCh.A + 10

\* The number of leading pairs of text that are two hex digits each.
RECURSIVE hexPairs(_, _)
hexPairs(text, n) ==
  IF 2 * n + 2 <= Len(text) /\ isHexDigit(text[2 * n + 1])
                            /\ isHexDigit(text[2 * n + 2])
  THEN hexPairs(text, n + 1)
  ELSE n

fromHex(text) ==
  [k \in 1..hexPairs(text, 0) |->
     16 * hexValue(text[2 * k - 1]) + hexValue(text[2 * k])]

TypeError == [name |-> "TypeError",
              message |-> "The first argument must be of type string"]

(***************************************************************************)
(* ECIES (eciesjs encrypt / decrypt) between a key pair.  A private key is *)
(* a number of PrivKeys and PubOf gives its public key.  encrypt draws an  *)
(* ephemeral secret, so one message has several ciphertexts; a ciphertext  *)
(* is the ephemeral value, the masked message and an authentication byte   *)
(* bound to the pair's shared secret.  decrypt under the matching private  *)
(* key gives the message back; under another key, or on a ciphertext that  *)
(* was cut or altered, it throws.                                          *)
(***************************************************************************)
PrivKeys == {1, 2}
PubOf(priv) == 100 + priv
Ephemerals == {3, 77}

eciesShared(pub, eph) == (17 * pub + 5 * eph) % 256

RECURSIVE eciesSum(_, _)
eciesSum(body, n) ==
  IF n = 0 THEN 0 ELSE (eciesSum(body, n - 1) + n * body[n]) % 256

eciesCheck(shared, body) == (3 * shared + eciesSum(body, Len(body)) + 1) % 256

eciesEncrypt(pub, msg, eph) ==
  LET shared == eciesShared(pub, eph)
      body == [k \in 1..Len(msg) |-> (msg[k] + shared + k) % 256]
  IN  << eph >> \o body \o << eciesCheck(shared, body) >>

eciesError == [name |-> "Error", message |-> "ecies decrypt failed"]

eciesDecrypt(priv, data) ==
  IF Len(data) < 2
  THEN [ok |-> FALSE, value |-> << >>, err |-> eciesError]
  ELSE LET shared == eciesShared(PubOf(priv), data[1])
           body == SubSeq(data, 2, Len(data) - 1)
       IN  IF data[Len(data)] # eciesCheck(shared, body)
           THEN [ok |-> FALSE, value |-> << >>, err |-> eciesError]
           ELSE [ok |-> TRUE,
                 value |-> [k \in 1..Len(body) |->
                              (body[k] + 512 - shared - k) % 256],
                 err |-> NoError]

(***************************************************************************)
(* WalletHandler.asymmetricEncrypt and asymmetricDecrypt.  A wallet is     *)
(* named by the private key of its key pair; wallet 0 is a query-only      *)
(* wallet, whose properties are null.                                      *)
(***************************************************************************)
QueryOnly == 0
Wallets == PrivKeys \cup {QueryOnly}

signerNotEnabled(module, func) ==
  [name |-> "Error", message |-> module \o "." \o func \o " - Signer not enabled"]

asymmetricEncrypt(toEncrypt, pubKey, eph) ==
  toHex(eciesEncrypt(pubKey, toEncrypt, eph))

asymmetricDecrypt(wallet, toDecrypt) ==
  IF wallet = QueryOnly
  THEN [ok |-> FALSE, value |-> << >>,
        err |-> signerNotEnabled("WalletHandler", "asymmetricDecrypt")]
  ELSE IF toDecrypt = Undefined
  THEN [ok |-> FALSE, value |-> << >>, err |-> TypeError]
  ELSE eciesDecrypt(wallet, fromHex(toDecrypt))

(***************************************************************************)
(* CryptoKey objects and their raw form.  The CryptoKey of key number k    *)
(* holds KeyLength raw bytes; exportKey('raw') gives the bytes and         *)
(* importKey('raw') makes a key of any 16, 24 or 32 bytes and rejects      *)
(* every other length.                                                     *)
(***************************************************************************)
KeyLength == 32
KeyRaw(key) == [j \in 1..KeyLength |-> (37 * key + j) % 256]
CryptoKeyOf(key) == [raw |-> KeyRaw(key)]
AesKeyLengths == {16, 24, 32}

DataError == [name |-> "DataError", message |-> "Invalid key length"]

exportJackalKey(key) == key.raw

importJackalKey(rawExport) ==
  IF Len(rawExport) \in AesKeyLengths
  THEN [ok |-> TRUE, key |-> [raw |-> rawExport], err |-> NoError]
  ELSE [ok |-> FALSE, key |-> NoCryptoKey, err |-> DataError]

(***************************************************************************)
(* aesToString and stringToAes.  stringToAes gives what it returns or      *)
(* throws, and asymCalls, the arguments of the calls it made to            *)
(* wallet.asymmetricDecrypt, in order.                                     *)
(***************************************************************************)
\* Line 106 with the halves the other way round.
joinHalvesSwapped(theIv, theKey) == theKey \o << HexCh.pipe >> \o theIv

\* Line 106.
joinHalves(theIv, theKey) == theIv \o << HexCh.pipe >> \o theKey

aesToString(pubKey, aes, ephIv, ephKey) ==
  LET theIv == asymmetricEncrypt(aes.iv, pubKey, ephIv)
      key == exportJackalKey(aes.key)
      theKey == asymmetricEncrypt(key, pubKey, ephKey)
  IN  joinHalves(theIv, theKey)

InvalidSource == [name |-> "Error",
                  message |-> "stringToAes() : Invalid source string"]

\* Line 119 with the test left out.
hasNoDelimiterNever(text) == FALSE

\* Line 119.
hasNoDelimiter(text) == indexOf(text, HexCh.pipe) < 0

\* Line 125 taking the last part in place of parts[1].
keyPartLast(parts) == parts[Len(parts)]

\* Line 125.
keyPart(parts) == partAt(parts, 1)

stringToAes(wallet, text) ==
  IF hasNoDelimiter(text)
  THEN [threw |-> TRUE, err |-> InvalidSource, iv |-> << >>,
        key |-> NoCryptoKey, asymCalls |-> << >>]
  ELSE LET parts == split(text, HexCh.pipe)
           ivPart == partAt(parts, 0)
           theIv == asymmetricDecrypt(wallet, ivPart)
       IN  IF ~theIv.ok
           THEN [threw |-> TRUE, err |-> theIv.err, iv |-> << >>,
                 key |-> NoCryptoKey, asymCalls |-> << ivPart >>]
           ELSE LET theKey == asymmetricDecrypt(wallet, keyPart(parts))
                    calls == << ivPart, keyPart(parts) >>
                IN  IF ~theKey.ok
                    THEN [threw |-> TRUE, err |-> theKey.err, iv |-> << >>,
                          key |-> NoCryptoKey, asymCalls |-> calls]
                    ELSE LET imported == importJackalKey(theKey.value)
                         IN  IF ~imported.ok
                             THEN [threw |-> TRUE, err |-> imported.err,
                                   iv |-> << >>, key |-> NoCryptoKey,
                                   asymCalls |-> calls]
                             ELSE [threw |-> FALSE, err |-> NoError,
                                   iv |-> theIv.value, key |-> imported.key,
                                   asymCalls |-> calls]

(***************************************************************************)
(* aesToString and stringToAes as functions of their arguments.  Init      *)
(* draws a key, an iv, the receiver's public key and the two ephemeral     *)
(* secrets; WrapCall applies aesToString; UnwrapCall hands the wrapped     *)
(* string, as it is or reshaped, to stringToAes under any wallet.          *)
(***************************************************************************)
Junk == << HexCh.a, HexCh.f >>                                  \* af

withoutPipe(text) == SelectSeq(text, LAMBDA c : c # HexCh.pipe)

WrapHows == {"intact", "noPipe", "empty", "junk", "extraPipe", "trailingPipe",
             "ivTwice", "cutKey"}

Reshaped(text, how) ==
  LET i == indexOf(text, HexCh.pipe)
  IN  CASE how = "intact" -> text
        [] how = "noPipe" -> withoutPipe(text)
        [] how = "empty" -> << >>
        [] how = "junk" -> Junk
        [] how = "extraPipe" -> text \o << HexCh.pipe >> \o Junk
        [] how = "trailingPipe" -> text \o << HexCh.pipe >>
        [] how = "ivTwice" -> SubSeq(text, 1, i + 1) \o text
        [] how = "cutKey" -> SubSeq(text, 1, i + 1)

InitWrap ==
  /\ wPc = "ready"
  /\ wrapArgs \in [key : Keys, iv : Ivs, pubKey : { PubOf(p) : p \in PrivKeys },
                   ephIv : Ephemerals, ephKey : Ephemerals]
  /\ wrapped = << >>
  /\ unwrapArgs = NoUnwrapArgs
  /\ unwrapResult = NoUnwrapResult
  /\ CryptIdle
  /\ EncIdle
  /\ DecIdle
  /\ FolderIdle
  /\ WalletIdle
  /\ RaceIdle

\* Lines 98-107.
WrapCall ==
  /\ wPc = "ready"
  /\ wrapped' = aesToString(wrapArgs.pubKey,
                            [iv |-> wrapArgs.iv, key |-> CryptoKeyOf(wrapArgs.key)],
                            wrapArgs.ephIv, wrapArgs.ephKey)
  /\ wPc' = "wrapped"
  /\ UNCHANGED << wrapArgs, unwrapArgs, unwrapResult, cryptVars, encVars,
                  decVars, folderVars,
                  walletVars, raceVars >>

\* Lines 115-127.
UnwrapCall ==
  /\ wPc = "wrapped"
  /\ \E wallet \in Wallets, how \in WrapHows :
       LET text == Reshaped(wrapped, how)
       IN  /\ unwrapArgs' = [signer |-> wallet, source |-> text, how |-> how]
           /\ unwrapResult' = stringToAes(wallet, text)
  /\ wPc' = "unwrapped"
  /\ UNCHANGED << wrapArgs, wrapped, cryptVars, encVars, decVars, folderVars,
                  walletVars, raceVars >>

NextWrap == WrapCall \/ UnwrapCall

SpecWrap == InitWrap /\ [][NextWrap]_vars

(***************************************************************************)
(* FolderHandler.  folderDetails is the frame of the tracked node: the     *)
(* identity triple, dirChildren as a JavaScript array and fileChildren as  *)
(* an object, here a function from the names it holds to their metadata.   *)
(* A wallet reference is whether its traits are set and its address.       *)
(***************************************************************************)
MaxNames == 2
DirNames == {"reports", "a/b"}
FileNames == {"f", "g"}
Metas == {"m1", "m2"}
FileMaps == UNION { [S -> Metas] : S \in SUBSET FileNames }
WalletRefs == [traits : BOOLEAN, address : {"jkl1me"}]

\* stripper takes every '/' out of a name.
stripper(value) == IF value = "a/b" THEN "ab" ELSE value

\* Array.prototype.includes and [...new Set(list)]: the first occurrence of
\* every element, in order.
includes(list, x) == \E k \in 1..Len(list) : list[k] = x

RECURSIVE uniqueOfFirst(_, _)
uniqueOfFirst(list, n) ==
  IF n = 0 THEN << >>
  ELSE LET front == uniqueOfFirst(list, n - 1)
       IN  IF includes(front, list[n]) THEN front ELSE Append(front, list[n])

\* Lines 102-104 without the Set.
spreadSetKeepingAll(list) == list

\* Lines 102-104: [...new Set(list)].
spreadSet(list) == uniqueOfFirst(list, Len(list))

\* The object spread { ...old, ...new } taking old's entry on a collision.
spreadFilesFirstWins(old, new) ==
  [name \in (DOMAIN old) \cup (DOMAIN new) |->
     IF name \in DOMAIN old THEN old[name] ELSE new[name]]

\* Lines 113-116: { ...old, ...new }.
spreadFiles(old, new) ==
  [name \in (DOMAIN old) \cup (DOMAIN new) |->
     IF name \in DOMAIN new THEN new[name] ELSE old[name]]

\* The filter of lines 123-125 keeping nothing.
withoutDirsNone(dirChildren, toRemove) == << >>

\* Lines 123-125 and 142-144: dirChildren.filter(saved => !toRemove.includes(saved)).
withoutDirs(dirChildren, toRemove) ==
  SelectSeq(dirChildren, LAMBDA saved : ~includes(toRemove, saved))

\* Lines 132-134 and 145-147: delete fileChildren[toRemove[i]] for every i.
withoutFiles(fileChildren, toRemove) ==
  [name \in { n \in DOMAIN fileChildren : ~includes(toRemove, n) } |->
     fileChildren[name]]

\* An assignment to this.folderDetails.fileChildren that replaces the frame.
withFileChildrenOnly(details, files) ==
  [NoFolder EXCEPT !.dirChildren = details.dirChildren, !.fileChildren = files]

\* Assignments to this.folderDetails.dirChildren and .fileChildren.
withDirChildren(details, dirs) == [details EXCEPT !.dirChildren = dirs]
withFileChildren(details, files) == [details EXCEPT !.fileChildren = files]

\* Lines 27-36.
trackNewFolder(dirInfo) ==
  [whoAmI |-> stripper(dirInfo.myName), whereAmI |-> dirInfo.myParent,
   whoOwnsMe |-> dirInfo.myOwner, dirChildren |-> << >>,
   fileChildren |-> EmptyFiles]

\* Lines 151-156 with the node's parent path handed down as it is.
makeChildDirInfoBeside(details, childName) ==
  [myName |-> stripper(childName), myParent |-> details.whereAmI,
   myOwner |-> details.whoOwnsMe]

\* Lines 151-156.
makeChildDirInfo(details, childName) ==
  [myName |-> stripper(childName),
   myParent |-> details.whereAmI \o "/" \o details.whoAmI,
   myOwner |-> details.whoOwnsMe]

\* saveFileTreeEntry: the chain-ready form of a frame, made from the frame
\* as it is when the call is made.
NoEncodeObject == [creator |-> "", whereAmI |-> "", whoAmI |-> "",
                   contents |-> NoFolder]

saveFileTreeEntry(toAddress, rawPath, rawTarget, rawContents, walletRef) ==
  [creator |-> toAddress, whereAmI |-> rawPath, whoAmI |-> rawTarget,
   contents |-> rawContents]

\* Lines 62-72.
getForFiletree(details, walletRef) ==
  IF ~walletRef.traits
  THEN [ok |-> FALSE, value |-> NoEncodeObject,
        err |-> signerNotEnabled("FolderHandler", "getForFiletree")]
  ELSE [ok |-> TRUE,
        value |-> saveFileTreeEntry(walletRef.address, details.whereAmI,
                                    details.whoAmI, details, walletRef),
        err |-> NoError]

\* The frame that getForFiletree reads when a handler calls it behind its
\* assignments: the frame before them.
frameReadStale(before, after) == before

\* The frame that getForFiletree reads when a handler calls it behind its
\* assignments (lines 105, 117, 126, 135, 148): this.folderDetails then.
frameRead(before, after) == after

\* Line 101 taken whatever more holds.
hasMoreAlways(more) == Len(more) >= 0

\* Line 101.
hasMore(more) == Len(more) > 0

\* What a handler did: whether it threw and what, the frame it left, and
\* what it returned (encoded holds the one EncodeObject of the handlers that
\* return one); children are the handlers addChildDirs made.
Outcome(threw, err, details, encoded, existing, children) ==
  [threw |-> threw, err |-> err, details |-> details, encoded |-> encoded,
   existing |-> existing, children |-> children]

\* The tail that addChildFileReferences and the remove handlers share:
\* return await this.getForFiletree(walletRef).
returnForFiletree(before, after, walletRef) ==
  LET own == getForFiletree(frameRead(before, after), walletRef)
  IN  IF own.ok
      THEN Outcome(FALSE, NoError, after, << own.value >>, << >>, << >>)
      ELSE Outcome(TRUE, own.err, after, << >>, << >>, << >>)

\* Lines 79-108.
addChildDirs(details, childNames, walletRef) ==
  LET existing == SelectSeq(childNames,
                            LAMBDA name : includes(details.dirChildren, name))
      more == SelectSeq(childNames,
                        LAMBDA name : ~includes(details.dirChildren, name))
      handlers == [k \in 1..Len(more) |->
                     trackNewFolder(makeChildDirInfo(details, more[k]))]
      made == [k \in 1..Len(more) |-> getForFiletree(handlers[k], walletRef)]
      encoded == [k \in 1..Len(more) |-> made[k].value]
  IN  IF \E k \in 1..Len(more) : ~made[k].ok
      THEN Outcome(TRUE, made[1].err, details, << >>, << >>, handlers)
      ELSE IF hasMore(more)
      THEN LET after == withDirChildren(details,
                                        spreadSet(details.dirChildren \o more))
               own == getForFiletree(frameRead(details, after), walletRef)
           IN  IF own.ok
               THEN Outcome(FALSE, NoError, after,
                            Append(encoded, own.value), existing, handlers)
               ELSE Outcome(TRUE, own.err, after, << >>, << >>, handlers)
      ELSE Outcome(FALSE, NoError, details, encoded, existing, handlers)

\* Lines 109-118.
addChildFileReferences(details, newFiles, walletRef) ==
  returnForFiletree(details,
                    withFileChildren(details,
                                     spreadFiles(details.fileChildren, newFiles)),
                    walletRef)

\* Lines 119-127.
removeChildDirReferences(details, toRemove, walletRef) ==
  returnForFiletree(details,
                    withDirChildren(details,
                                    withoutDirs(details.dirChildren, toRemove)),
                    walletRef)

\* Lines 128-136.
removeChildFileReferences(details, toRemove, walletRef) ==
  returnForFiletree(details,
                    withFileChildren(details,
                                     withoutFiles(details.fileChildren, toRemove)),
                    walletRef)

\* Lines 137-149.
removeChildDirAndFileReferences(details, dirs, files, walletRef) ==
  returnForFiletree(
    details,
    withFileChildren(withDirChildren(details,
                                     withoutDirs(details.dirChildren, dirs)),
                     withoutFiles(details.fileChildren, files)),
    walletRef)

(***************************************************************************)
(* A folder node and the calls made on it, one after the other.            *)
(* TrackNewFolder and TrackFolder construct the handler; every other       *)
(* action is one call of a handler, from its first line to its return or   *)
(* throw, on any arguments and any wallet reference.                       *)
(***************************************************************************)
RootInfo == [myName |-> "docs", myParent |-> "s/home", myOwner |-> "jkl1owner"]

LoadedFrames ==
  [whoAmI : {"docs"}, whereAmI : {"s/home"}, whoOwnsMe : {"jkl1owner"},
   dirChildren : SeqsUpTo(DirNames, MaxNames), fileChildren : FileMaps]

ChildNameLists == SeqsUpTo(DirNames, MaxNames)
DirRemoveLists == { << >>, << "reports" >>, << "a/b" >>, << "a/b", "reports" >> }
FileRemoveLists == { << >>, << "f" >>, << "g" >>, << "g", "f" >> }

InitFolder ==
  /\ FolderIdle
  /\ WalletIdle
  /\ RaceIdle
  /\ CryptIdle
  /\ EncIdle
  /\ DecIdle
  /\ WrapIdle

Called(op, names, fileNames, files, walletRef, out) ==
  [op |-> op, names |-> names, fileNames |-> fileNames, files |-> files,
   signing |-> walletRef.traits, threw |-> out.threw, err |-> out.err,
   encoded |-> out.encoded, existing |-> out.existing,
   children |-> out.children]

Returns(op, names, fileNames, files, walletRef, out) ==
  /\ fPc # "idle"
  /\ prevDetails' = folderDetails
  /\ folderDetails' = out.details
  /\ lastOp' = Called(op, names, fileNames, files, walletRef, out)
  /\ UNCHANGED << fPc, cryptVars, encVars, decVars, wrapVars,
                  walletVars, raceVars >>

\* Lines 27-36.
TrackNewFolder ==
  /\ fPc = "idle"
  /\ fPc' = "new"
  /\ folderDetails' = trackNewFolder(RootInfo)
  /\ UNCHANGED << prevDetails, lastOp, cryptVars, encVars, decVars, wrapVars,
                  walletVars, raceVars >>

\* Lines 24-26.
TrackFolder ==
  /\ fPc = "idle"
  /\ fPc' = "loaded"
  /\ folderDetails' \in LoadedFrames
  /\ UNCHANGED << prevDetails, lastOp, cryptVars, encVars, decVars, wrapVars,
                  walletVars, raceVars >>

AddChildDirs ==
  \E childNames \in ChildNameLists, walletRef \in WalletRefs :
    Returns("addChildDirs", childNames, << >>, EmptyFiles, walletRef,
            addChildDirs(folderDetails, childNames, walletRef))

AddChildFileReferences ==
  \E newFiles \in FileMaps, walletRef \in WalletRefs :
    Returns("addChildFileReferences", << >>, << >>, newFiles, walletRef,
            addChildFileReferences(folderDetails, newFiles, walletRef))

RemoveChildDirReferences ==
  \E toRemove \in DirRemoveLists, walletRef \in WalletRefs :
    Returns("removeChildDirReferences", toRemove, << >>, EmptyFiles, walletRef,
            removeChildDirReferences(folderDetails, toRemove, walletRef))

RemoveChildFileReferences ==
  \E toRemove \in FileRemoveLists, walletRef \in WalletRefs :
    Returns("removeChildFileReferences", << >>, toRemove, EmptyFiles, walletRef,
            removeChildFileReferences(folderDetails, toRemove, walletRef))

RemoveChildDirAndFileReferences ==
  \E dirs \in DirRemoveLists, files \in FileRemoveLists,
     walletRef \in WalletRefs :
    Returns("removeChildDirAndFileReferences", dirs, files, EmptyFiles,
            walletRef,
            removeChildDirAndFileReferences(folderDetails, dirs, files,
                                            walletRef))

NextFolder ==
  \/ TrackNewFolder
  \/ TrackFolder
  \/ AddChildDirs
  \/ AddChildFileReferences
  \/ RemoveChildDirReferences
  \/ RemoveChildFileReferences
  \/ RemoveChildDirAndFileReferences

SpecFolder == InitFolder /\ [][NextFolder]_vars

(***************************************************************************)
(* WalletHandler.  properties and traits are null or the records that      *)
(* processWallet makes; a record with isNull set stands for null.  A       *)
(* session (the mnemonic wallet) determines the account and, through       *)
(* makeSecret, the key pair.                                               *)
(***************************************************************************)
MaxPending == 2
Sessions == PrivKeys
Addresses == {"jkl1alice", "jkl1bob"}
AddressOf(session) == IF session = 1 THEN "jkl1alice" ELSE "jkl1bob"

\* The public keys registered on chain, by address.
Directory == [address \in {"jkl1alice"} |-> "02aa"]

\* What fileTreeQuery.queryPubkey can answer for an address: the registered
\* key; for an address without one, a failure, or a success whose pubkey is
\* missing or holds an empty key (the answers that line 421 tells apart).
NoPubkey == [present |-> FALSE, key |-> ""]
queryPubkey(address) ==
  IF address \in DOMAIN Directory
  THEN { [success |-> TRUE,
          pubkey |-> [present |-> TRUE, key |-> Directory[address]]] }
  ELSE [success : BOOLEAN,
        pubkey : { NoPubkey, [present |-> TRUE, key |-> ""] }]

BoolValue(flag) == [tag |-> "boolean", flag |-> flag, text |-> "", bytes |-> << >>]
TextValue(text) == [tag |-> "string", flag |-> FALSE, text |-> text, bytes |-> << >>]
BufferValue(bytes) == [tag |-> "buffer", flag |-> FALSE, text |-> "", bytes |-> bytes]
ObjectValue(name) == [tag |-> "object", flag |-> FALSE, text |-> name, bytes |-> << >>]

\* Lines 400-438: what processWallet resolves to for a session, given the
\* answers of the rns and pubkey queries.
processWallet(session, rnsInit, pubkeyResult) ==
  [properties |->
     [isNull |-> FALSE, keyPair |-> session, rnsInitComplete |-> rnsInit,
      fileTreeInitComplete |->
        pubkeyResult.success /\ pubkeyResult.pubkey.present
          /\ pubkeyResult.pubkey.key # "",
      address |-> AddressOf(session)],
   traits |-> [isNull |-> FALSE, chainId |-> "jackal-1",
               isDirect |-> session = 1]]

ProcessWalletError == [name |-> "Error", message |-> "processWallet rejected"]

NullReadError == [name |-> "TypeError",
                  message |-> "Cannot read properties of null or undefined"]

\* The test `if (!this.properties)` left out.
signerEnabledAlways(properties) == TRUE

\* The test `if (!this.properties)` that opens every signer-dependent method.
signerEnabled(properties) == ~properties.isNull

SignerOps == {"getRnsInitStatus", "setRnsInitStatus", "getStorageInitStatus",
              "setStorageInitStatus", "getProtoHandler", "getAccounts",
              "getSigner", "getJackalAddress", "getHexJackalAddress",
              "getAllBalances", "getJackalBalance", "getPubkey",
              "asymmetricDecrypt"}

\* A ciphertext for the key pair of session 1, and a text that is none.
SampleCiphertext == asymmetricEncrypt(<< 7 >>, PubOf(1), 3)

ArgsOf(op) ==
  CASE op \in {"setRnsInitStatus", "setStorageInitStatus"} ->
         { BoolValue(TRUE), BoolValue(FALSE) }
    [] op = "asymmetricDecrypt" ->
         { BufferValue(SampleCiphertext), BufferValue(Junk) }
    [] OTHER -> { NoValue }

Returned(value, properties) ==
  [threw |-> FALSE, err |-> NoError, value |-> value, properties |-> properties]
Thrown(err, properties) ==
  [threw |-> TRUE, err |-> err, value |-> NoValue, properties |-> properties]

\* Lines 141-296: one signer-dependent method called on a wallet whose
\* properties are as given; what it returns or throws, and the properties
\* afterwards.
signerCall(properties, op, arg) ==
  IF op = "asymmetricDecrypt"
  THEN LET r == asymmetricDecrypt(IF properties.isNull THEN QueryOnly
                                  ELSE properties.keyPair, arg.bytes)
       IN  IF r.ok THEN Returned(BufferValue(r.value), properties)
           ELSE Thrown(r.err, properties)
  ELSE IF ~signerEnabled(properties)
  THEN Thrown(signerNotEnabled("WalletHandler", op), properties)
  ELSE IF properties.isNull
  THEN Thrown(NullReadError, properties)
  ELSE CASE op = "getRnsInitStatus" ->
              Returned(BoolValue(properties.rnsInitComplete), properties)
         [] op = "setRnsInitStatus" ->
              Returned(NoValue,
                       [properties EXCEPT !.rnsInitComplete = arg.flag])
         [] op = "getStorageInitStatus" ->
              Returned(BoolValue(properties.fileTreeInitComplete), properties)
         [] op = "setStorageInitStatus" ->
              Returned(NoValue,
                       [properties EXCEPT !.fileTreeInitComplete = arg.flag])
         [] op = "getProtoHandler" -> Returned(ObjectValue("pH"), properties)
         [] op = "getAccounts" -> Returned(ObjectValue("accounts"), properties)
         [] op = "getSigner" -> Returned(ObjectValue("signer"), properties)
         [] op = "getJackalAddress" ->
              Returned(TextValue(properties.address), properties)
         [] op = "getHexJackalAddress" ->
              Returned(ObjectValue("hashAndHex " \o properties.address),
                       properties)
         [] op = "getAllBalances" -> Returned(ObjectValue("balances"), properties)
         [] op = "getJackalBalance" -> Returned(ObjectValue("balance"), properties)
         [] op = "getPubkey" ->
              Returned(BufferValue(<< PubOf(properties.keyPair) >>), properties)

NotRegistered(address) ==
  [name |-> "Error", message |-> address \o " does not have a pubkey registered"]

\* Lines 303-310, given the answer of queryPubkey.
findPubKey(address, result) ==
  IF ~result.success THEN Thrown(NotRegistered(address), NullProperties)
  ELSE IF ~result.pubkey.present THEN Thrown(NullReadError, NullProperties)
  ELSE Returned(TextValue(result.pubkey.key), NullProperties)

\* Line 125 leaving traits as it was.
assignTraitsNever(old, new) == old

\* Lines 124-125: this.properties = properties; this.traits = traits.
assignProperties(old, new) == new
assignTraits(old, new) == new

(***************************************************************************)
(* A wallet and the calls made on it.  trackWallet and trackQueryWallet    *)
(* construct it.  convertToFullWallet is two steps, because it waits for   *)
(* processWallet: ConvertBegin is the call, ConvertResolve and             *)
(* ConvertReject are its continuation; up to MaxPending calls wait at a    *)
(* time and end in any order.  Every other method is one step.             *)
(***************************************************************************)
WithoutAt(list, k) == SubSeq(list, 1, k - 1) \o SubSeq(list, k + 1, Len(list))

WalletCall(op, arg, out) ==
  [op |-> op, arg |-> arg, threw |-> out.threw, err |-> out.err,
   value |-> out.value, beforeProps |-> wProps, beforeTraits |-> wTraits]

InitWallet ==
  /\ WalletIdle
  /\ CryptIdle
  /\ EncIdle
  /\ DecIdle
  /\ WrapIdle
  /\ FolderIdle
  /\ RaceIdle

restOfWallet == << cryptVars, encVars, decVars, wrapVars, folderVars, raceVars >>

\* Lines 76-88.
TrackWallet ==
  /\ wlPc = "none"
  /\ \/ \E session \in Sessions, rnsInit \in BOOLEAN :
          \E result \in queryPubkey(AddressOf(session)) :
            LET made == processWallet(session, rnsInit, result)
            IN  /\ wlPc' = "tracked"
                /\ wProps' = made.properties
                /\ wTraits' = made.traits
                /\ wLast' = WalletCall("trackWallet", NoValue,
                                       Returned(NoValue, NullProperties))
     \/ /\ wLast' = WalletCall("trackWallet", NoValue,
                               Thrown(ProcessWalletError, NullProperties))
        /\ UNCHANGED << wlPc, wProps, wTraits >>
  /\ UNCHANGED << wPending, wSinceVoid, restOfWallet >>

\* Lines 94-97.
TrackQueryWallet ==
  /\ wlPc = "none"
  /\ wlPc' = "tracked"
  /\ wProps' = NullProperties
  /\ wTraits' = NullTraits
  /\ wLast' = WalletCall("trackQueryWallet", NoValue,
                         Returned(NoValue, NullProperties))
  /\ UNCHANGED << wPending, wSinceVoid, restOfWallet >>

\* Lines 115-119: the call, up to its wait for processWallet.
ConvertBegin ==
  /\ wlPc = "tracked"
  /\ Len(wPending) < MaxPending
  /\ \E session \in Sessions : wPending' = Append(wPending, session)
  /\ wSinceVoid' = FALSE
  /\ UNCHANGED << wlPc, wProps, wTraits, wLast, restOfWallet >>

\* Lines 119-125: processWallet resolved.
ConvertResolve ==
  /\ \E k \in 1..Len(wPending), rnsInit \in BOOLEAN :
       \E result \in queryPubkey(AddressOf(wPending[k])) :
         LET made == processWallet(wPending[k], rnsInit, result)
         IN  /\ wProps' = assignProperties(wProps, made.properties)
             /\ wTraits' = assignTraits(wTraits, made.traits)
             /\ wPending' = WithoutAt(wPending, k)
  /\ wLast' = WalletCall("convertToFullWallet", NoValue,
                         Returned(NoValue, NullProperties))
  /\ UNCHANGED << wlPc, wSinceVoid, restOfWallet >>

\* Lines 119-123: processWallet rejected.
ConvertReject ==
  /\ \E k \in 1..Len(wPending) : wPending' = WithoutAt(wPending, k)
  /\ wLast' = WalletCall("convertToFullWallet", NoValue,
                         Thrown(ProcessWalletError, NullProperties))
  /\ UNCHANGED << wlPc, wProps, wTraits, wSinceVoid, restOfWallet >>

\* Lines 132-135.
VoidFullWallet ==
  /\ wlPc = "tracked"
  /\ wProps' = NullProperties
  /\ wTraits' = NullTraits
  /\ wSinceVoid' = TRUE
  /\ wLast' = WalletCall("voidFullWallet", NoValue,
                         Returned(NoValue, NullProperties))
  /\ UNCHANGED << wlPc, wPending, restOfWallet >>

\* Lines 141-296 but getQueryHandler.
SignerCall ==
  /\ wlPc = "tracked"
  /\ \E op \in SignerOps :
       \E arg \in ArgsOf(op) :
         LET out == signerCall(wProps, op, arg)
         IN  /\ wProps' = out.properties
             /\ wLast' = WalletCall(op, arg, out)
  /\ UNCHANGED << wlPc, wTraits, wPending, wSinceVoid, restOfWallet >>

\* Lines 193-195.
GetQueryHandler ==
  /\ wlPc = "tracked"
  /\ wLast' = WalletCall("getQueryHandler", NoValue,
                         Returned(ObjectValue("qH"), NullProperties))
  /\ UNCHANGED << wlPc, wProps, wTraits, wPending, wSinceVoid, restOfWallet >>

\* Lines 303-310.
FindPubKey ==
  /\ wlPc = "tracked"
  /\ \E address \in Addresses :
       \E result \in queryPubkey(address) :
         wLast' = WalletCall("findPubKey", TextValue(address),
                             findPubKey(address, result))
  /\ UNCHANGED << wlPc, wProps, wTraits, wPending, wSinceVoid, restOfWallet >>

NextWallet ==
  \/ TrackWallet
  \/ TrackQueryWallet
  \/ ConvertBegin
  \/ ConvertResolve
  \/ ConvertReject
  \/ VoidFullWallet
  \/ SignerCall
  \/ GetQueryHandler
  \/ FindPubKey

SpecWallet == InitWallet /\ [][NextWallet]_vars

(***************************************************************************)
(* Properties of the envelope codec, checked under SpecCodec.              *)
(***************************************************************************)
\* The decoder has finished, one way or the other.
DecodeEnded == dPc \in {"done", "failed"}

\* C1: for every file of size 0, 1, one chunk or one chunk plus a byte and
\* every key and iv, decoding what the encoder returned, with the same key
\* and iv, returns normally a file with the size, the type and the content
\* of the original.
C1_EnvelopeRoundTrip ==
  (/\ origin.kind = "own"
   /\ DecodeEnded
   /\ Len(workingFile.content) \in {0, 1, ChunkSize, ChunkSize + 1})
    => /\ dPc = "done"
       /\ Len(decOut.content) = Len(workingFile.content)
       /\ decOut.type = workingFile.type
       /\ decOut.content = workingFile.content

\* C2: every part the decoder keeps (the metadata record of the first
\* frame, the body parts of the later frames, in frame order) is the
\* buffer its frame decrypted to, and the returned file is made of those.
C2_DecryptedIsReassembled ==
  (dPc \in {"loop", "done"})
    => /\ \A k \in 1..Len(frames) :
            IF k = 1 THEN detailsBuf = frames[1].decrypted
            ELSE /\ k - 1 <= Len(bufParts)
                 /\ bufParts[k - 1] = frames[k].decrypted
       /\ dPc = "done" =>
            decOut.content =
              Concat([k \in 1..(Len(frames) - 1) |-> frames[k + 1].decrypted])

\* The number of frames the encoder has written: encryptedArray holds, for
\* every frame, the header and then the ciphertext.
FrameCount == Len(encryptedArray) \div 2

\* C3: the number in the 8-digit header of every frame the encoder writes
\* is the byte length of the frame's ciphertext plus 8.
C3_HeaderIsCiphertextLengthPlus8 ==
  (ePc \in {"loop", "done"})
    => \A k \in 1..FrameCount :
         /\ Len(encryptedArray[2 * k - 1]) = HeaderWidth
         /\ Number(encryptedArray[2 * k - 1])
              = Num(Len(encryptedArray[2 * k]) + 8)

\* C4: for a file of size s the encoder writes ceil(s / ChunkSize) + 1
\* frames: the metadata frame, then one frame for every chunk of at most
\* ChunkSize bytes, in file order; a file of size 0 gives one frame.
C4_FrameCountAndOrder ==
  (ePc = "done")
    => LET size == Len(workingFile.content)
           meta == SubtleDecrypt(encKey, encIv, encryptedArray[2])
       IN  /\ Len(encryptedArray) = 2 * FrameCount
           /\ FrameCount = ((size + ChunkSize - 1) \div ChunkSize) + 1
           /\ size = 0 => FrameCount = 1
           /\ meta.ok
           /\ meta.value = JsonStringify(DetailsOf(workingFile))
           /\ \A c \in 1..(FrameCount - 1) :
                LET chunk == SubtleDecrypt(encKey, encIv,
                                           encryptedArray[2 * c + 2])
                IN  /\ chunk.ok
                    /\ Len(chunk.value) <= ChunkSize
                    /\ chunk.value =
                         SubSeq(workingFile.content, (c - 1) * ChunkSize + 1,
                                Min(c * ChunkSize, size))
           /\ encOut.content = Concat(encryptedArray)

\* C4 witness: a file of more than one chunk, the last chunk partial, has
\* been encoded into its metadata frame and one frame per chunk.
C4_Witness ==
  /\ ePc = "done"
  /\ Len(workingFile.content) > ChunkSize
  /\ Len(workingFile.content) % ChunkSize # 0
  /\ FrameCount = (Len(workingFile.content) \div ChunkSize) + 2
  /\ encOut.content = Concat(encryptedArray)

\* C5: the decoder fails, and returns no file, whenever the header of a
\* frame, the first or a later one, is not a number.
C5_NonNumericHeaderFails ==
  (DecodeEnded /\ \E k \in 1..Len(frames) : frames[k].segSize.nan)
    => dPc = "failed"

\* C6: the decoder fails, and returns no file, whenever the span a header
\* declares ends past the end of the envelope; and a decode that returns a
\* file has consumed the envelope exactly.
C6_OverrunFails ==
  /\ (DecodeEnded /\ \E k \in 1..Len(frames) : frames[k].overran)
       => dPc = "failed"
  /\ dPc = "done" => decI = Num(Len(source))

(***************************************************************************)
(* Properties of aesCrypt, checked under SpecCrypt.                        *)
(***************************************************************************)
\* The second call decrypts what the first call encrypted, under the same
\* key and iv.
IsRoundTrip ==
  /\ cPc = "returned"
  /\ feed = "same"
  /\ prevArgs.mode = "encrypt"
  /\ callArgs.mode = "decrypt"
  /\ callArgs.key = prevArgs.key
  /\ callArgs.iv = prevArgs.iv

\* C7: decrypting with (key, iv) the result of encrypting a buffer b with
\* the same (key, iv) returns b, for every buffer, key and iv.
C7_CryptRoundTrip ==
  IsRoundTrip => /\ ~callResult.threw
                 /\ callResult.value = prevArgs.data

\* C7 witness: a round trip of a buffer of two or more bytes has returned it.
C7_Witness ==
  /\ IsRoundTrip
  /\ Len(prevArgs.data) >= 2
  /\ ~callResult.threw
  /\ callResult.value = prevArgs.data
  /\ callResult.cipher = << "decrypt" >>

\* C8: aesCrypt called with an empty buffer returns an empty buffer, in
\* encrypt and in decrypt mode and for every key and iv, and invokes no
\* cipher operation.
C8_EmptyShortCircuit ==
  (cPc = "returned" /\ callArgs.data = << >>)
    => /\ ~callResult.threw
       /\ callResult.value = << >>
       /\ callResult.cipher = << >>

\* C8 witness: an empty buffer went through encrypt mode and then through
\* decrypt mode, and came back empty with no cipher operation either time.
C8_Witness ==
  /\ cPc = "returned"
  /\ feed = "same"
  /\ prevArgs.data = << >>
  /\ prevArgs.mode = "encrypt"
  /\ prevResult.value = << >>
  /\ prevResult.cipher = << >>
  /\ callArgs.data = << >>
  /\ callArgs.mode = "decrypt"
  /\ callResult.value = << >>
  /\ callResult.cipher = << >>

\* C9: decrypting, under the same key and iv, a buffer that differs in one
\* bit from a ciphertext that aesCrypt produced from a non-empty buffer
\* fails with an error and returns no plaintext.
C9_TamperDetected ==
  (cPc = "returned" /\ feed = "flipped")
    => /\ callResult.threw
       /\ callResult.value = << >>

\* C9 witness: a ciphertext with one bit flipped was handed to a decrypting
\* call, which rejected.
C9_Witness ==
  /\ cPc = "returned"
  /\ feed = "flipped"
  /\ prevArgs.data # << >>
  /\ callArgs.data # prevResult.value
  /\ Len(callArgs.data) = Len(prevResult.value)
  /\ callResult.threw

\* The direction a call of aesCrypt attempts.
DirectionOf(mode) ==
  IF toLowerCase(mode) = "encrypt" THEN "encrypt" ELSE "decrypt"

\* The direction an error message names, "none" when it names neither.
DirectionNamedBy(message) ==
  CASE message = "aesCrypt(encrypt) - " -> "encrypt"
    [] message = "aesCrypt(decrypt) - " -> "decrypt"
    [] OTHER -> "none"

Unwrapped == wPc = "unwrapped"

\* The wallet that unwraps holds the private key of the public key that the
\* bundle was wrapped for.
SignerIsReceiver ==
  /\ unwrapArgs.signer # QueryOnly
  /\ PubOf(unwrapArgs.signer) = wrapArgs.pubKey

\* C11: stringToAes under the receiver's private key, applied to what
\* aesToString produced for the receiver's public key, returns the same iv
\* and a key whose exported bytes are those of the original key.
C11_WrapRoundTrip ==
  (Unwrapped /\ unwrapArgs.how = "intact" /\ SignerIsReceiver)
    => /\ ~unwrapResult.threw
       /\ unwrapResult.iv = wrapArgs.iv
       /\ exportJackalKey(unwrapResult.key)
            = exportJackalKey(CryptoKeyOf(wrapArgs.key))

C11_Witness ==
  /\ Unwrapped
  /\ unwrapArgs.how = "intact"
  /\ SignerIsReceiver
  /\ unwrapArgs.source = wrapped
  /\ Len(unwrapResult.asymCalls) = 2
  /\ unwrapResult.iv = wrapArgs.iv
  /\ unwrapResult.key = CryptoKeyOf(wrapArgs.key)

\* C12: stringToAes given a string without '|' fails with its own error,
\* and has made no call to the wallet's asymmetric decryption.
C12_NoDelimiterFailsFirst ==
  (Unwrapped /\ indexOf(unwrapArgs.source, HexCh.pipe) < 0)
    => /\ unwrapResult.threw
       /\ unwrapResult.err = InvalidSource
       /\ unwrapResult.asymCalls = << >>

C12_Witness ==
  /\ Unwrapped
  /\ unwrapArgs.how = "noPipe"
  /\ SignerIsReceiver
  /\ Len(unwrapArgs.source) = Len(wrapped) - 1
  /\ unwrapResult.threw
  /\ unwrapResult.err = InvalidSource
  /\ unwrapResult.asymCalls = << >>

\* The text of the source in front of its first '|', the whole text behind
\* its first '|', and the text between its first and its second '|' (up to
\* the end when there is no second one).
BeforeFirstPipe(text) == SubSeq(text, 1, indexOf(text, HexCh.pipe))
AfterFirstPipe(text) ==
  SubSeq(text, indexOf(text, HexCh.pipe) + 2, Len(text))
SecondPart(text) ==
  LET rest == AfterFirstPipe(text)
  IN  IF indexOf(rest, HexCh.pipe) < 0 THEN rest ELSE BeforeFirstPipe(rest)

\* C13 as stated: the text in front of the first '|' is what is decrypted
\* as the iv, and the whole text behind the first '|', further '|'
\* included, is what is decrypted as the key.
C13_SplitsOnFirstPipe ==
  (Unwrapped /\ indexOf(unwrapArgs.source, HexCh.pipe) >= 0)
    => /\ Len(unwrapResult.asymCalls) >= 1
       /\ unwrapResult.asymCalls[1] = BeforeFirstPipe(unwrapArgs.source)
       /\ Len(unwrapResult.asymCalls) >= 2
            => unwrapResult.asymCalls[2] = AfterFirstPipe(unwrapArgs.source)

\* C13 amended: the text in front of the first '|' is what is decrypted as
\* the iv, and the text between the first and the second '|' (up to the end
\* when there is no second '|') is what is decrypted as the key; the text
\* from a second '|' on is not used.
C13_UsesFirstTwoParts ==
  (Unwrapped /\ indexOf(unwrapArgs.source, HexCh.pipe) >= 0)
    => /\ Len(unwrapResult.asymCalls) >= 1
       /\ unwrapResult.asymCalls[1] = BeforeFirstPipe(unwrapArgs.source)
       /\ Len(unwrapResult.asymCalls) >= 2
            => unwrapResult.asymCalls[2] = SecondPart(unwrapArgs.source)

C13_Witness ==
  /\ Unwrapped
  /\ unwrapArgs.how = "extraPipe"
  /\ SignerIsReceiver
  /\ ~unwrapResult.threw
  /\ Len(unwrapResult.asymCalls) = 2
  /\ unwrapResult.asymCalls[2] = SecondPart(unwrapArgs.source)
  /\ unwrapResult.asymCalls[2] # AfterFirstPipe(unwrapArgs.source)
  /\ unwrapResult.key = CryptoKeyOf(wrapArgs.key)

(***************************************************************************)
(* Properties of FolderHandler, checked under SpecFolder.                  *)
(***************************************************************************)
NoDuplicates(list) ==
  \A i \in 1..Len(list) : \A j \in 1..Len(list) : i # j => list[i] # list[j]

Occurrences(list, x) == Cardinality({ k \in 1..Len(list) : list[k] = x })

Identity(details) == << details.whoAmI, details.whereAmI, details.whoOwnsMe >>

ChildrenChanged ==
  \/ folderDetails.dirChildren # prevDetails.dirChildren
  \/ folderDetails.fileChildren # prevDetails.fileChildren

RemoveOps == {"removeChildDirReferences", "removeChildFileReferences",
              "removeChildDirAndFileReferences"}

\* C14: a node made by trackNewFolder has no child directory name twice,
\* and every call of a handler on a node whose child directory list holds
\* no name twice leaves a list that holds no name twice.
C14_DirChildrenStayUnique ==
  [][ /\ (fPc = "idle" /\ fPc' = "new")
         => NoDuplicates(folderDetails'.dirChildren)
      /\ (fPc # "idle" /\ NoDuplicates(folderDetails.dirChildren))
         => NoDuplicates(folderDetails'.dirChildren) ]_vars

C14_Witness ==
  /\ fPc = "loaded"
  /\ lastOp.op = "addChildDirs"
  /\ ~lastOp.threw
  /\ lastOp.names = << "reports", "reports" >>
  /\ prevDetails.dirChildren = << "a/b" >>
  /\ folderDetails.dirChildren = << "a/b", "reports" >>

\* C15: addChildDirs with names that are all child directories already
\* returns no change record, reports every requested name as existing and
\* leaves the child directories and child files as they were.
C15_AddExistingIsNoOp ==
  (/\ lastOp.op = "addChildDirs"
   /\ \A k \in 1..Len(lastOp.names) :
        includes(prevDetails.dirChildren, lastOp.names[k]))
    => /\ ~lastOp.threw
       /\ lastOp.encoded = << >>
       /\ lastOp.existing = lastOp.names
       /\ folderDetails.dirChildren = prevDetails.dirChildren
       /\ folderDetails.fileChildren = prevDetails.fileChildren

C15_Witness ==
  /\ lastOp.op = "addChildDirs"
  /\ lastOp.names = << "reports", "a/b" >>
  /\ prevDetails.dirChildren = << "a/b", "reports" >>
  /\ lastOp.existing = << "reports", "a/b" >>
  /\ lastOp.encoded = << >>
  /\ folderDetails = prevDetails

\* The names of the last addChildDirs call that were no child directory
\* before it.
NewNames ==
  { lastOp.names[k] : k \in { j \in 1..Len(lastOp.names) :
                               ~includes(prevDetails.dirChildren,
                                         lastOp.names[j]) } }

\* C16: addChildDirs that returns, called with names none of which is a
\* child directory yet, makes one child and one child change record for
\* every distinct new name (followed by the node's own record), holds every
\* new name once afterwards, and reports no name as existing.
C16_OneChildPerDistinctName ==
  (/\ lastOp.op = "addChildDirs"
   /\ ~lastOp.threw
   /\ NewNames # {}
   /\ \A k \in 1..Len(lastOp.names) : lastOp.names[k] \in NewNames)
    => /\ Len(lastOp.children) = Cardinality(NewNames)
       /\ Len(lastOp.encoded) = Cardinality(NewNames) + 1
       /\ \A name \in NewNames :
            Occurrences(folderDetails.dirChildren, name) = 1
       /\ lastOp.existing = << >>

\* C17: no call of a handler changes whoAmI, whereAmI or whoOwnsMe of a
\* tracked node.
C17_IdentityNeverChanges ==
  [][ fPc # "idle" => Identity(folderDetails') = Identity(folderDetails) ]_vars

C17_Witness ==
  /\ fPc = "new"
  /\ lastOp.op = "removeChildDirAndFileReferences"
  /\ ~lastOp.threw
  /\ folderDetails.dirChildren # prevDetails.dirChildren
  /\ folderDetails.fileChildren # prevDetails.fileChildren
  /\ Identity(folderDetails) = << "docs", "s/home", "jkl1owner" >>
  /\ Identity(prevDetails) = Identity(folderDetails)

\* C18: after addChildFileReferences(newFiles) the file map holds the names
\* it held and those of newFiles and no other; every name of newFiles has
\* the metadata newFiles gives it, every other name the metadata it had;
\* the child directory list is the same.
C18_NewFilesOverride ==
  lastOp.op = "addChildFileReferences"
    => /\ DOMAIN folderDetails.fileChildren
            = (DOMAIN prevDetails.fileChildren) \cup (DOMAIN lastOp.files)
       /\ \A name \in DOMAIN lastOp.files :
            folderDetails.fileChildren[name] = lastOp.files[name]
       /\ \A name \in (DOMAIN prevDetails.fileChildren) \ (DOMAIN lastOp.files) :
            folderDetails.fileChildren[name] = prevDetails.fileChildren[name]
       /\ folderDetails.dirChildren = prevDetails.dirChildren

C18_Witness ==
  /\ lastOp.op = "addChildFileReferences"
  /\ DOMAIN lastOp.files = {"f"}
  /\ DOMAIN prevDetails.fileChildren = {"f", "g"}
  /\ prevDetails.fileChildren["f"] # lastOp.files["f"]
  /\ folderDetails.fileChildren["f"] = lastOp.files["f"]
  /\ folderDetails.fileChildren["g"] = prevDetails.fileChildren["g"]

\* C19: a remove handler called with a signing wallet returns, whether or
\* not the names are present; afterwards the child directories are those
\* it had that were not named, in their order, and the child files are
\* those it had that were not named, with their metadata.
C19_RemoveIgnoresAbsent ==
  (lastOp.op \in RemoveOps /\ lastOp.signing)
    => /\ ~lastOp.threw
       /\ folderDetails.dirChildren
            = SelectSeq(prevDetails.dirChildren,
                        LAMBDA saved : \A k \in 1..Len(lastOp.names) :
                                         lastOp.names[k] # saved)
       /\ DOMAIN folderDetails.fileChildren
            = { name \in DOMAIN prevDetails.fileChildren :
                  \A k \in 1..Len(lastOp.fileNames) :
                    lastOp.fileNames[k] # name }
       /\ \A name \in DOMAIN folderDetails.fileChildren :
            folderDetails.fileChildren[name] = prevDetails.fileChildren[name]

C19_Witness ==
  /\ lastOp.op \in RemoveOps
  /\ lastOp.signing
  /\ ~lastOp.threw
  /\ lastOp.names = << "a/b" >>
  /\ prevDetails.dirChildren = << "reports" >>
  /\ folderDetails.dirChildren = << "reports" >>
  /\ lastOp.fileNames = << "g", "f" >>
  /\ DOMAIN prevDetails.fileChildren = {"f"}
  /\ DOMAIN folderDetails.fileChildren = {}

\* C20: a handler that returns having changed the child directories or the
\* child files returns, as its last record, the chain-ready form of the
\* frame as the change left it.
C20_ReturnsFreshRepresentation ==
  (lastOp.op # "none" /\ ~lastOp.threw /\ ChildrenChanged)
    => /\ lastOp.encoded # << >>
       /\ lastOp.encoded[Len(lastOp.encoded)].contents = folderDetails
       /\ lastOp.encoded[Len(lastOp.encoded)].whoAmI = folderDetails.whoAmI
       /\ lastOp.encoded[Len(lastOp.encoded)].whereAmI = folderDetails.whereAmI

C20_Witness ==
  /\ lastOp.op = "addChildDirs"
  /\ ~lastOp.threw
  /\ ChildrenChanged
  /\ Len(lastOp.encoded) = 2
  /\ lastOp.encoded[1].whoAmI = "ab"
  /\ lastOp.encoded[2].contents = folderDetails
  /\ lastOp.encoded[2].contents # prevDetails

\* C21: every child node that addChildDirs makes has this node's full path
\* (whereAmI, "/", whoAmI) as its parent path and this node's owner as its
\* owner, and has no child directories and no child files.
C21_ChildInheritsPathAndOwner ==
  lastOp.op = "addChildDirs"
    => \A k \in 1..Len(lastOp.children) :
         /\ lastOp.children[k].whereAmI
              = prevDetails.whereAmI \o "/" \o prevDetails.whoAmI
         /\ lastOp.children[k].whoOwnsMe = prevDetails.whoOwnsMe
         /\ lastOp.children[k].dirChildren = << >>
         /\ lastOp.children[k].fileChildren = EmptyFiles

C21_Witness ==
  /\ lastOp.op = "addChildDirs"
  /\ ~lastOp.threw
  /\ lastOp.names = << "a/b", "reports" >>
  /\ Len(lastOp.children) = 2
  /\ lastOp.children[1].whoAmI = "ab"
  /\ lastOp.children[1].whereAmI = "s/home/docs"
  /\ lastOp.children[2].whoOwnsMe = "jkl1owner"
  /\ Len(prevDetails.dirChildren) = 0
  /\ DOMAIN prevDetails.fileChildren = {"f", "g"}

\* C25 as stated: a handler that throws because the wallet reference is
\* not signer-enabled leaves the child directories and the child files as
\* they were before the call.
C25_FailedCallChangesNothing ==
  (lastOp.op # "none" /\ lastOp.threw /\ ~lastOp.signing)
    => /\ folderDetails.dirChildren = prevDetails.dirChildren
       /\ folderDetails.fileChildren = prevDetails.fileChildren

(***************************************************************************)
(* Termination of the frame loop, checked under SpecCodec.                 *)
(***************************************************************************)
\* C24 as stated: every iteration of the frame loop of
\* convertFromEncryptedFile that is followed by another test of the loop
\* condition leaves the read offset i greater than it was (or not a number,
\* which ends the loop).
C24_OffsetAlwaysAdvances ==
  [][ (dPc = "loop" /\ dPc' = "loop" /\ Len(frames') = Len(frames) + 1)
        => (decI'.nan \/ decI'.val > decI.val) ]_vars

(***************************************************************************)
(* Properties of WalletHandler, checked under SpecWallet.                  *)
(***************************************************************************)
\* C22 as stated: findPubKey throws for an address without a registered
\* public key, returns the registered key for an address with one, and
\* never returns an empty key.
C22_FindPubKeyNeverEmpty ==
  wLast.op = "findPubKey"
    => /\ wLast.arg.text \notin DOMAIN Directory => wLast.threw
       /\ wLast.arg.text \in DOMAIN Directory
            => (~wLast.threw /\ wLast.value = TextValue(Directory[wLast.arg.text]))
       /\ ~wLast.threw => wLast.value.text # ""

\* C23: a signer-dependent method called while properties is null throws
\* the signer-not-enabled error of that method and leaves properties and
\* traits as they were; getQueryHandler returns the query handler.
C23_QueryOnlyRefusesSignerCalls ==
  /\ (wLast.op \in SignerOps /\ wLast.beforeProps.isNull)
       => /\ wLast.threw
          /\ wLast.err = signerNotEnabled("WalletHandler", wLast.op)
          /\ wProps = wLast.beforeProps
          /\ wTraits = wLast.beforeTraits
  /\ wLast.op = "getQueryHandler"
       => (~wLast.threw /\ wLast.value = ObjectValue("qH"))

C23_Witness ==
  /\ wSinceVoid
  /\ wLast.op = "setRnsInitStatus"
  /\ wLast.arg = BoolValue(TRUE)
  /\ wLast.beforeProps.isNull
  /\ wLast.threw
  /\ wProps = NullProperties
  /\ wTraits = NullTraits

\* C26: properties is null exactly when traits is null, and the end of a
\* convertToFullWallet call that failed leaves both as they were.
C26_PropertiesAndTraitsTogether ==
  /\ wProps.isNull <=> wTraits.isNull
  /\ (wLast.op = "convertToFullWallet" /\ wLast.threw)
       => (wProps = wLast.beforeProps /\ wTraits = wLast.beforeTraits)

C26_Witness ==
  /\ wlPc = "tracked"
  /\ wLast.op = "convertToFullWallet"
  /\ wLast.threw
  /\ ~wProps.isNull
  /\ ~wTraits.isNull
  /\ wProps.keyPair = 2
  /\ wPending = << >>

\* C27 as stated: from the return of voidFullWallet until the next call of
\* convertToFullWallet, properties and traits are null.
C27_VoidedStaysQueryOnly ==
  wSinceVoid => (wProps.isNull /\ wTraits.isNull)

(***************************************************************************)
(* Two addChildDirs calls on one node, each with a signing wallet, that    *)
(* may overlap.  A call gives way at each await: RaceBegin is lines 83-94  *)
(* (existing, more and the child handlers, up to the first Promise.all),   *)
(* RaceEncode lines 95-100 (the child records, up to the second            *)
(* Promise.all), RaceAssign lines 101-105 (the assignment and the call of  *)
(* getForFiletree, or the return when more is empty) and RaceReturn lines  *)
(* 105-107.  seen is a history field: dirChildren as RaceBegin found it.   *)
(***************************************************************************)
RaceWallet == [traits |-> TRUE, address |-> "jkl1me"]

RaceFrames ==
  { frame \in LoadedFrames :
      frame.fileChildren = EmptyFiles /\ NoDuplicates(frame.dirChildren) }

\* Lines 102-104 spreading the list that the call found when it began.
dirChildrenSpreadStale(seen, current) == seen

\* Lines 102-104: ...this.folderDetails.dirChildren, read when the
\* assignment runs.
dirChildrenSpread(seen, current) == current

InitRace ==
  /\ RaceIdle
  /\ FolderIdle
  /\ WalletIdle
  /\ CryptIdle
  /\ EncIdle
  /\ DecIdle
  /\ WrapIdle

restOfRace ==
  << prevDetails, lastOp, cryptVars, encVars, decVars, wrapVars, walletVars >>

\* Lines 24-26.
RaceTrack ==
  /\ fPc = "idle"
  /\ fPc' = "shared"
  /\ folderDetails' \in RaceFrames
  /\ UNCHANGED << race, restOfRace >>

RaceBegin(c) ==
  /\ fPc = "shared"
  /\ race[c].pc = "idle"
  /\ \E childNames \in ChildNameLists :
       LET more == SelectSeq(childNames,
                     LAMBDA name : ~includes(folderDetails.dirChildren, name))
       IN  race' = [race EXCEPT ![c] =
             [pc |-> "awaitHandlers", childNames |-> childNames,
              existing |-> SelectSeq(childNames,
                             LAMBDA name : includes(folderDetails.dirChildren,
                                                    name)),
              more |-> more,
              handlers |-> [k \in 1..Len(more) |->
                 trackNewFolder(makeChildDirInfo(folderDetails, more[k]))],
              encoded |-> << >>, threw |-> FALSE,
              seen |-> folderDetails.dirChildren]]
  /\ UNCHANGED << fPc, folderDetails, restOfRace >>

RaceEncode(c) ==
  /\ race[c].pc = "awaitHandlers"
  /\ LET made == [k \in 1..Len(race[c].more) |->
                    getForFiletree(race[c].handlers[k], RaceWallet)]
     IN  IF \E k \in 1..Len(made) : ~made[k].ok
         THEN race' = [race EXCEPT ![c].pc = "done", ![c].threw = TRUE]
         ELSE race' = [race EXCEPT ![c].pc = "awaitEncoded",
                                   ![c].encoded =
                                      [k \in 1..Len(made) |-> made[k].value]]
  /\ UNCHANGED << fPc, folderDetails, restOfRace >>

RaceAssign(c) ==
  /\ race[c].pc = "awaitEncoded"
  /\ IF hasMore(race[c].more)
     THEN LET after ==
                withDirChildren(folderDetails,
                  spreadSet(dirChildrenSpread(race[c].seen,
                                              folderDetails.dirChildren)
                              \o race[c].more))
              own == getForFiletree(frameRead(folderDetails, after),
                                    RaceWallet)
          IN  /\ folderDetails' = after
              /\ IF own.ok
                 THEN race' = [race EXCEPT
                                 ![c].pc = "awaitOwn",
                                 ![c].encoded = Append(@, own.value)]
                 ELSE race' = [race EXCEPT ![c].pc = "done",
                                           ![c].threw = TRUE]
     ELSE /\ race' = [race EXCEPT ![c].pc = "done"]
          /\ UNCHANGED folderDetails
  /\ UNCHANGED << fPc, restOfRace >>

RaceReturn(c) ==
  /\ race[c].pc = "awaitOwn"
  /\ race' = [race EXCEPT ![c].pc = "done"]
  /\ UNCHANGED << fPc, folderDetails, restOfRace >>

NextRace ==
  \/ RaceTrack
  \/ \E c \in RaceCalls : RaceBegin(c)
  \/ \E c \in RaceCalls : RaceEncode(c)
  \/ \E c \in RaceCalls : RaceAssign(c)
  \/ \E c \in RaceCalls : RaceReturn(c)

SpecRace == InitRace /\ [][NextRace]_vars

BothReturned ==
  \A c \in RaceCalls : race[c].pc = "done" /\ ~race[c].threw

\* The child change records for name among the records call c returned.
ChildRecords(c, name) ==
  Cardinality({ k \in 1..Len(race[c].encoded) :
                  /\ race[c].encoded[k].whoAmI = stripper(name)
                  /\ race[c].encoded[k].whereAmI
                       = folderDetails.whereAmI \o "/" \o folderDetails.whoAmI })

FoundNew(c, name) ==
  includes(race[c].childNames, name) /\ ~includes(race[c].seen, name)

Overlapped ==
  \E name \in DirNames : \A c \in RaceCalls : FoundNew(c, name)

RaceKeepsChildren ==
  /\ NoDuplicates(folderDetails.dirChildren)
  /\ \A c \in RaceCalls : \A name \in DirNames :
       FoundNew(c, name) => includes(folderDetails.dirChildren, name)

\* C28 as stated: when two addChildDirs calls on one node have both
\* returned, the node's child directory list holds no name twice and holds
\* every name either call found new, and a name both calls request has at
\* most one child change record across the two calls.
C28_AtMostOneChildRecord ==
  BothReturned =>
    /\ RaceKeepsChildren
    /\ \A name \in DirNames :
         (\A c \in RaceCalls : includes(race[c].childNames, name))
           => ChildRecords(1, name) + ChildRecords(2, name) <= 1

\* C28 amended: when two addChildDirs calls on one node have both returned,
\* the node's child directory list holds no name twice and holds every name
\* either call found new, and each call returned, for each name, one child
\* change record per occurrence of the name in its list if it found the
\* name new when it began and none otherwise; so a name both calls found
\* new has a child change record from each of them.
C28_EachCallRecordsWhatItFoundNew ==
  BothReturned =>
    /\ RaceKeepsChildren
    /\ \A c \in RaceCalls : \A name \in DirNames :
         ChildRecords(c, name)
           = IF FoundNew(c, name)
             THEN Occurrences(race[c].childNames, name)
             ELSE 0

C28_Witness ==
  /\ BothReturned
  /\ Overlapped
  /\ \E name \in DirNames :
       /\ ChildRecords(1, name) = 1
       /\ ChildRecords(2, name) = 1
       /\ Occurrences(folderDetails.dirChildren, name) = 1
  /\ \E name \in DirNames :
       /\ FoundNew(1, name)
       /\ ~includes(race[2].childNames, name)
       /\ includes(folderDetails.dirChildren, name)

=============================================================================
